---- MODULE Spec2Model ----
(***************************************************************************)
(* State-machine model of the ItScope/Shopify connector:                   *)
(*   - the webhook order-forwarding engine (handleOrderCreated),           *)
(*   - the order-status cron job (order-status-sync GET),                  *)
(*   - the stock/price cron job (stock-sync GET) with the tracked-product  *)
(*     PATCH endpoint.                                                     *)
(* Every await of the handlers is a step boundary, so that several         *)
(* deliveries of one webhook event and several runs of a cron job can      *)
(* interleave the way the Node.js event loop lets them.                    *)
(***************************************************************************)
EXTENDS Integers, Sequences, FiniteSets, TLC

\* ------------------------------------------------------------- bounds
\* deliveries of the one "orders/create" event (at-least-once delivery)
MaxDeliveries == 2
\* concurrently active invocations of the order-status cron job
MaxRuns == 2
\* how many times a storefront fulfillment request may fail per order
MaxFulfillFaults == 1

\* concurrently active invocations of the stock/price cron job
MaxStockRuns == 2
\* project (contract-price) entries an offer carries at most
MaxProjects == 2
\* supplier prices range over 1..MaxPrice
MaxPrice == 3

\* line items of the storefront order
MaxLineItems == 2
MaxImports == 3         \* import requests
MaxOrders == 2          \* orders forwarded, over all shops

Deliveries == 1..MaxDeliveries
StockRuns == 1..MaxStockRuns
Prices == 1..MaxPrice
Runs == 1..MaxRuns

\* ---------------------------------------------------------- constants
Null == "null"
\* null in a numeric column (TLC does not compare a number with a string)
NoPrice == 0 - 1
NoRow == [status |-> "absent"]

\* The distributors the tracked products are bound to.
Distributors == {"d1", "d2"}

\* The distributor groups an incoming order can have, in the iteration order
\* of the byDistributor Map (insertion order of the matched products).
OrderGroupings == {<<"d1">>, <<"d1", "d2">>}

\* Status texts the supplier reports for a deal, in the order a deal moves
\* through them.
SupplierStatuses == <<"RECEIVED", "CONFIRMED", "SHIPPED", "DELIVERED">>

VARIABLES
    \* --- the storefront order of the "orders/create" event
    lineItems,   \* its line items: product_id and quantity
    orderNumber, \* its order_number, as a sequence of characters
    \* --- Order Ledger (prisma.order), one slot per distributor of the order
    ledger,
    \* --- one webhook delivery = one invocation of POST/handleOrderCreated
    pc,          \* "idle" | "send" | "create" | "done" (answered 200 after
                 \* handleOrderCreated) | "ignored" (answered 200, other
                 \* topic) | "rejected" (answered 401) | "crashed" (threw)
    cursor,      \* index into groups of the group being processed
    result,      \* what sendOrder returned, kept until prisma.order.create
    submitted,   \* groups for which this delivery called sendOrder
    claimed,     \* groups for which this delivery inserted the Order row
    threw,       \* the call and group at which the handler threw, if any
    orderXml,    \* line items of the last order document built per distributor
    received,    \* the request the delivery brought: headers and raw body
    sessions,    \* the shops with rows in the session table
    \* --- supplier side (ItScope)
    supStatus,   \* status text of the deal per distributor, Null = no deal
    supDispatch, \* a dispatch document with a SHIPMENT_ID exists
    \* --- order-status cron job, one record per invocation slot
    runPc,         \* "idle" | "loop" | "fulfill" | "update"
    pendingOrders, \* rows read by findMany and not yet processed
    newStatus,     \* local newStatus of the order being processed
    trackingNumber,\* local trackingNumber of the order being processed
    statusUpdated, \* local counter updated
    statusErrors,  \* local counter errors
    polled,        \* pendingOrders.length, the rows findMany returned
    \* --- storefront side and bookkeeping of the fulfillment calls
    fulfillCalls,  \* invocations of createShopifyFulfillment per distributor
    fulfillThrows, \* of these, how many threw
    fulfilled,     \* a fulfillment with the tracking number was created
    \* --- Tracked-Product Store (prisma.trackedProduct) and supplier offers
    trackedProducts, \* row per product: shop, active, importPrice,
                     \* lastPrice, priceAlert, projectId
    offerPrice,      \* price of the bound distributor's current offer
    offerProjects,   \* the project (contract-price) entries of that offer
    \* --- stock/price cron job, one record per invocation slot
    stockPc,       \* "idle" | "session" | "fetch" | "push" | "update"
    stockQueue,    \* rows read by findMany, by shop, not yet processed
    newPrice,      \* local newPrice of the product being processed
    inventoryCalls,\* the storefront inventory requests made for that
                   \* product, in order, each with whether it returned
    stockUpdated,  \* local counter updated
    stockErrors,   \* local counter errors
    stockSkipped,  \* the shops this run skipped for want of a session
    \* --- history of each job: "none" | "first" (a run is under way) |
    \* "between" (it has ended) | "second" (the next run is under way), as
    \* long as no data changed and no request failed since the first run began
    statusSteady,
    stockSteady,
    \* --- the status mapping applied to a status text on its own
    mapInput,      \* the order's status and the supplier's status text
    mapOutput,     \* the status the mapping gave
    \* --- importing and removing tracked products
    trackedRows,   \* the TrackedProduct table, row by row: id, sku, active
    nextId,        \* the id the table gives to the next row
    storefront,    \* per SKU, the storefront products created for it
    importPc,      \* per import request: "idle" | "delete" | "search" |
                   \*   "session" | "productCreate" | "create" | "done"
    importSku,     \* per import request: the SKU it asks for
    existing,      \* per import request: the row findUnique returned
    answer,        \* per import request: the HTTP status of its response
    \* --- the order document's free-text fields
    xmlField,      \* the field of the order parameters last inserted
    xmlInput,      \* its value
    xmlOutput,     \* the text buildOrderXml inserted for it
    \* --- the orders of all shops
    forwarded,     \* the Order rows of the orders forwarded so far
    \* --- the parties and line items of the order document of one group
    docOrder,      \* the group's products and the order's two addresses
    docParams,     \* the parameters buildOrderXml is called with
    docXml         \* the parties, the line items and the flag of the
                   \* document buildOrderXml returned

fwdVars == <<pc, cursor, result, submitted, claimed, threw, orderXml>>
supVars == <<supStatus, supDispatch>>
statusCounters == <<statusUpdated, statusErrors, polled>>
jobVars == <<runPc, pendingOrders, newStatus, trackingNumber, statusCounters>>
shopVars == <<fulfillCalls, fulfillThrows, fulfilled>>

orderVars == <<lineItems, orderNumber, ledger, fwdVars, supVars, jobVars, shopVars,
               statusSteady, received, sessions>>
stockCounters == <<stockUpdated, stockErrors, stockSkipped>>
stockJobVars == <<stockPc, stockQueue, newPrice, inventoryCalls, stockCounters>>
offerVars == <<offerPrice, offerProjects>>
stockVars == <<trackedProducts, offerVars, stockJobVars, stockSteady>>

mapVars == <<mapInput, mapOutput>>
importVars == <<trackedRows, nextId, storefront, importPc, importSku, existing, answer>>

xmlVars == <<xmlField, xmlInput, xmlOutput>>

docVars == <<docOrder, docParams, docXml>>
sideVars == <<mapVars, importVars, xmlVars, forwarded, docVars>>

vars == <<orderVars, stockVars, sideVars>>

\* ------------------------------------------------------------ helpers
NoThrow == [call |-> Null, group |-> Null]
NoResult == [success |-> FALSE, dealId |-> Null, error |-> Null]

\* The storage layer's unique key (shop, shopifyOrderId, distributorId):
\* an insert succeeds only when the slot is free.
UniqueKeyFree(g) == ledger[g] = NoRow

\* ------------------------------------------------ history of the runs
\* A run begins: the second of two when the one before has just ended.
RunStarts(steady) == IF steady = "between" THEN "second" ELSE "first"

\* A run ends.
RunEnds(steady) == IF steady \in {"first", "second"} THEN "between" ELSE "none"

\* ------------------------------------------------ tracked products
Products == {"p1", "p2", "p3"}
Shops == {"s1", "s2"}

\* The rows of the table in the order findMany returns them.
ProductOrder == <<"p1", "p2", "p3">>

\* The distributor each product was imported from.
DistributorOf == [p1 |-> "d1", p2 |-> "d2", p3 |-> "d1"]

\* The shop the webhook comes from, and a product id no row carries.
OrderShop == "s1"
Untracked == "x"

\* ------------------------------------------------ forwarding engine
\* findMany({ where: { shop, shopifyProductId: { in: ids }, active: true } })
MatchedProducts ==
    LET ids == {lineItems[i].product_id : i \in 1..Len(lineItems)}
        Pick(i) == LET tp == trackedProducts[ProductOrder[i]] IN
                   IF tp.shop = OrderShop /\ tp.active /\ ProductOrder[i] \in ids
                     THEN <<tp @@ [id |-> ProductOrder[i]]>>
                     ELSE <<>>
        R[i \in 0..Len(ProductOrder)] ==
            IF i = 0 THEN <<>> ELSE R[i - 1] \o Pick(i)
    IN  R[Len(ProductOrder)]

\* The keys of byDistributor in insertion order.
RECURSIVE DistributorsOf(_)
DistributorsOf(rows) ==
    IF rows = <<>> THEN <<>>
    ELSE <<Head(rows).distributorId>>
            \o DistributorsOf(SelectSeq(rows, LAMBDA tp :
                   tp.distributorId # Head(rows).distributorId))

\* for (const [distributorId, products] of byDistributor)
groups == DistributorsOf(MatchedProducts)

\* lineItems.find(li => gid(li.product_id) === tp.shopifyProductId): the
\* index of the first such line item, 0 when there is none.
FindLineItem(id) ==
    IF \E i \in 1..Len(lineItems) : lineItems[i].product_id = id
      THEN CHOOSE i \in 1..Len(lineItems) :
              /\ lineItems[i].product_id = id
              /\ \A j \in 1..(i - 1) : lineItems[j].product_id # id
      ELSE 0

\* orderLineItems: one entry per product of the group, taken from the line
\* item found for it; products without a line item are filtered out.
OrderLineItems(g) ==
    LET products == SelectSeq(MatchedProducts, LAMBDA tp : tp.distributorId = g)
        Entry(tp) == IF FindLineItem(tp.id) = 0 THEN <<>>
                     ELSE <<[supplierPid |-> tp.id,
                             quantity |-> lineItems[FindLineItem(tp.id)].quantity]>>
        R[i \in 0..Len(products)] ==
            IF i = 0 THEN <<>> ELSE R[i - 1] \o Entry(products[i])
    IN  R[Len(products)]

\* str.substring(start, end)
Substring(str, start, end) ==
    SubSeq(str, start + 1, IF end < Len(str) THEN end ELSE Len(str))

\* The longest own order id the supplier takes.
MaxOwnOrderId == 18

\* const ownOrderId = `SH${order.order_number}`.substring(0, 18)
OwnOrderId(number) == Substring(<<"S", "H">> \o number, 0, MaxOwnOrderId)

\* ------------------------------------------------ forwarding engine
\* process.env.SHOPIFY_API_SECRET, and a key of somebody else
ApiSecret == "SHOPIFY_API_SECRET"
Keys == {ApiSecret, "another key"}

\* Raw bodies: the JSON of an event, and text that is no JSON.
Bodies == {"{json}", "no json"}

\* crypto.createHmac("sha256", key).update(rawBody).digest("base64"): the
\* digest stands for its key and its text (no two of them give the same)
Hmac(key, rawBody) == [key |-> key, rawBody |-> rawBody]

\* request.headers.get(...) of a header the request does not carry
NoHmac == Hmac(Null, Null)

\* The requests POST can receive: under any topic or without the topic
\* header, with or without the shop header, without signature header or
\* with the HMAC of any body under any key, with a body that is JSON or not.
Topics == {"orders/create", "app/uninstalled", "other"}
Requests ==
    [topic : Topics \cup {Null}, shop : {OrderShop, Null},
     hmac : {NoHmac} \cup {Hmac(key, rawBody) : key \in Keys, rawBody \in Bodies},
     rawBody : Bodies]
NoRequest == [topic |-> Null, shop |-> Null, hmac |-> NoHmac, rawBody |-> Null]

\* Every signature is taken for good.
AuthenticAlways(request) == TRUE

\* hash === hmac, the hash being the HMAC of the raw body under the secret
Authentic(request) == Hmac(ApiSecret, request.rawBody) = request.hmac

\* Where POST goes with a request: 401 for a missing header or a wrong
\* HMAC; JSON.parse(rawBody) stands before the try block, so its throw
\* leaves POST; the switch then enters handleOrderCreated for orders/create,
\* handleAppUninstalled for app/uninstalled, and goes on to the 200 answer
\* for every other topic.
Dispatch(request) ==
    IF request.topic = Null \/ request.shop = Null \/ request.hmac = NoHmac
      THEN "rejected"
    ELSE IF ~Authentic(request) THEN "rejected"
    ELSE IF request.rawBody # "{json}" THEN "crashed"
    ELSE IF request.topic = "orders/create" THEN "send"
    ELSE "ignored"

\* await prisma.session.deleteMany({ where: { shop } })
HandleAppUninstalled(shop) == sessions \ {shop}

\* The answer the caller of POST gets: NextResponse.json({ ok: true }) after
\* the try/catch, the 401 of the two checks, or the 500 the framework gives
\* for a handler that threw.
Response(d) ==
    CASE pc[d] \in {"done", "ignored"} -> 200
      [] pc[d] = "rejected" -> 401
      [] pc[d] = "crashed" -> 500
      [] OTHER -> 0

\* POST with a valid signature and topic orders/create enters
\* handleOrderCreated; the matched products give the
\* groups of the order.  With topic app/uninstalled it deletes the
\* sessions of the shop (a deleteMany that throws is caught and answered
\* like any other topic).
Deliver(d) ==
    /\ UNCHANGED <<stockVars, sideVars>>
    /\ pc[d] = "idle"
    /\ \E request \in Requests :
          /\ received' = [received EXCEPT ![d] = request]
          /\ pc' = [pc EXCEPT ![d] =
                   \* if (trackedProducts.length === 0) return;
                   IF Dispatch(request) = "send" /\ groups = <<>>
                     THEN "done" ELSE Dispatch(request)]
          /\ sessions' = IF Dispatch(request) = "ignored"
                              /\ request.topic = "app/uninstalled"
                           THEN HandleAppUninstalled(request.shop)
                           ELSE sessions
    /\ cursor' = [cursor EXCEPT ![d] = 1]
    /\ UNCHANGED <<lineItems, orderNumber, ledger, result, submitted, claimed,
                   threw, orderXml, supVars, jobVars, shopVars>>
    /\ UNCHANGED statusSteady

\* What sendOrder can do: the HTTP call returns ok (with or without a deal
\* id in the body), returns a non-ok status, or fetch/parse throws.
SendOutcomes == {"ok", "okNoId", "httpError", "throw"}

\* The supplier registers a deal when the POST was accepted.
AcceptDeal(g) ==
    [supStatus EXCEPT ![g] = IF @ = Null THEN SupplierStatuses[1] ELSE @]

\* const result = await sendOrder(distributorId, orderXml)
SendOrder(d) ==
    /\ UNCHANGED <<stockVars, sideVars>>
    /\ pc[d] = "send"
    /\ LET g == groups[cursor[d]] IN
       /\ submitted' = [submitted EXCEPT ![d] = @ \cup {g}]
       /\ orderXml' = [orderXml EXCEPT ![g] = OrderLineItems(g)]
       /\ \E out \in SendOutcomes :
            \/ /\ out = "ok"
               /\ result' = [result EXCEPT ![d] =
                     [success |-> TRUE, dealId |-> "deal", error |-> Null]]
               /\ supStatus' = AcceptDeal(g)
               /\ pc' = [pc EXCEPT ![d] = "create"]
               /\ UNCHANGED threw
            \/ /\ out = "okNoId"
               /\ result' = [result EXCEPT ![d] =
                     [success |-> TRUE, dealId |-> "", error |-> Null]]
               /\ supStatus' = AcceptDeal(g)
               /\ pc' = [pc EXCEPT ![d] = "create"]
               /\ UNCHANGED threw
            \/ /\ out = "httpError"
               /\ result' = [result EXCEPT ![d] =
                     [success |-> FALSE, dealId |-> Null,
                      error |-> "HTTP 500: rejected"]]
               /\ pc' = [pc EXCEPT ![d] = "create"]
               /\ UNCHANGED <<supStatus, threw>>
            \/ /\ out = "throw"
               \* propagates out of the for loop to the catch of POST
               /\ threw' = [threw EXCEPT ![d] =
                     [call |-> "sendOrder", group |-> g]]
               /\ pc' = [pc EXCEPT ![d] = "done"]
               /\ UNCHANGED <<result, supStatus>>
    /\ UNCHANGED <<received, sessions>>
    /\ UNCHANGED <<lineItems, orderNumber, ledger, cursor, claimed, supDispatch, jobVars, shopVars>>
    /\ statusSteady' = "none"

\* Every row is recorded as sent.
InitialStatusSent(res) == "sent"

\* status: result.success ? "sent" : "error"
InitialStatus(res) == IF res.success THEN "sent" ELSE "error"

\* value || null
OrNull(value) == IF value \in {Null, ""} THEN Null ELSE value

\* The row prisma.order.create inserts after the supplier call.
NewOrderRow(res) ==
    [status |-> InitialStatus(res),
     itscopeDealId |-> OrNull(res.dealId),
     itscopeOwnOrderId |-> OwnOrderId(orderNumber),
     errorMessage |-> OrNull(res.error),
     trackingNumber |-> Null]

\* await prisma.order.create({...}); then the next group of the for loop
CreateOrder(d) ==
    /\ UNCHANGED <<stockVars, sideVars>>
    /\ pc[d] = "create"
    /\ LET g == groups[cursor[d]] IN
       \/ /\ UniqueKeyFree(g)
          /\ ledger' = [ledger EXCEPT ![g] = NewOrderRow(result[d])]
          /\ claimed' = [claimed EXCEPT ![d] = @ \cup {g}]
          /\ IF cursor[d] < Len(groups)
               THEN /\ cursor' = [cursor EXCEPT ![d] = @ + 1]
                    /\ pc' = [pc EXCEPT ![d] = "send"]
               ELSE /\ pc' = [pc EXCEPT ![d] = "done"]
                    /\ UNCHANGED cursor
          /\ UNCHANGED threw
       \/ /\ ~UniqueKeyFree(g)
          \* unique-constraint violation: create throws, caught by POST
          /\ threw' = [threw EXCEPT ![d] =
                [call |-> "order.create", group |-> g]]
          /\ pc' = [pc EXCEPT ![d] = "done"]
          /\ UNCHANGED <<ledger, claimed, cursor>>
    /\ result' = [result EXCEPT ![d] = NoResult]
    /\ UNCHANGED <<received, sessions>>
    /\ UNCHANGED <<lineItems, orderNumber, submitted, orderXml, supVars, jobVars,
                   shopVars>>
    /\ statusSteady' = "none"

\* ------------------------------------------------------ supplier side
StatusIndex(text) == CHOOSE i \in 1..Len(SupplierStatuses) : SupplierStatuses[i] = text

\* The supplier moves a deal to its next status.
SupplierAdvance(g) ==
    /\ UNCHANGED <<stockVars, sideVars>>
    /\ supStatus[g] # Null
    /\ StatusIndex(supStatus[g]) < Len(SupplierStatuses)
    /\ supStatus' = [supStatus EXCEPT ![g] = SupplierStatuses[StatusIndex(@) + 1]]
    /\ UNCHANGED <<received, sessions>>
    /\ UNCHANGED <<lineItems, orderNumber, ledger, fwdVars, supDispatch, jobVars, shopVars>>
    /\ statusSteady' = "none"

\* The distributor's dispatch notification (with its SHIPMENT_ID) arrives.
DispatchArrives(g) ==
    /\ UNCHANGED <<stockVars, sideVars>>
    /\ supStatus[g] \in {"SHIPPED", "DELIVERED"}
    /\ ~supDispatch[g]
    /\ supDispatch' = [supDispatch EXCEPT ![g] = TRUE]
    /\ UNCHANGED <<received, sessions>>
    /\ UNCHANGED <<lineItems, orderNumber, ledger, fwdVars, supStatus, jobVars, shopVars>>
    /\ statusSteady' = "none"

\* --------------------------------------------- order-status cron job
\* where: { status: { in: ["sent", "confirmed"] } }
PolledStatuses == {"sent", "confirmed"}

\* The rows findMany returns, each with the slot it was read from.
SelectPending ==
    LET Pick(i) == IF ledger[groups[i]].status \in PolledStatuses
                     THEN <<ledger[groups[i]] @@ [distributorId |-> groups[i]]>>
                     ELSE <<>>
        R[i \in 0..Len(groups)] == IF i = 0 THEN <<>> ELSE R[i - 1] \o Pick(i)
    IN  R[Len(groups)]

\* const pendingOrders = await prisma.order.findMany(...)
StartRun(r) ==
    /\ UNCHANGED <<stockVars, sideVars>>
    /\ runPc[r] = "idle"
    \* invocation slots are interchangeable: the lowest free one is taken
    /\ \A q \in Runs : q < r => runPc[q] # "idle"
    /\ runPc' = [runPc EXCEPT ![r] = "loop"]
    /\ pendingOrders' = [pendingOrders EXCEPT ![r] = SelectPending]
    /\ UNCHANGED <<received, sessions>>
    /\ UNCHANGED <<lineItems, orderNumber, ledger, fwdVars, supVars, newStatus, trackingNumber, shopVars>>
    /\ statusSteady' = RunStarts(statusSteady)
    /\ statusUpdated' = [statusUpdated EXCEPT ![r] = 0]
    /\ statusErrors' = [statusErrors EXCEPT ![r] = 0]
    /\ polled' = [polled EXCEPT ![r] = Len(SelectPending)]

\* The for loop is exhausted: return NextResponse.json({ updated, errors })
FinishRun(r) ==
    /\ UNCHANGED <<stockVars, sideVars>>
    /\ runPc[r] = "loop"
    /\ pendingOrders[r] = <<>>
    /\ runPc' = [runPc EXCEPT ![r] = "idle"]
    /\ UNCHANGED <<received, sessions>>
    /\ UNCHANGED <<lineItems, orderNumber, ledger, fwdVars, supVars, pendingOrders, newStatus,
                   trackingNumber, shopVars>>
    /\ statusSteady' = RunEnds(statusSteady)
    /\ statusUpdated' = [statusUpdated EXCEPT ![r] = 0]
    /\ statusErrors' = [statusErrors EXCEPT ![r] = 0]
    /\ polled' = [polled EXCEPT ![r] = 0]

\* The status text the supplier's deal document carries for each status.
SupplierText ==
    [RECEIVED |-> <<"R", "e", "c", "e", "i", "v", "e", "d">>,
     CONFIRMED |-> <<"C", "o", "n", "f", "i", "r", "m", "e", "d">>,
     SHIPPED |-> <<"S", "h", "i", "p", "p", "e", "d">>,
     DELIVERED |-> <<"D", "e", "l", "i", "v", "e", "r", "e", "d">>]

\* The upper-case letter of each lower-case letter.
UpperOf ==
    [a |-> "A", b |-> "B", c |-> "C", d |-> "D", e |-> "E", f |-> "F",
     g |-> "G", h |-> "H", i |-> "I", j |-> "J", k |-> "K", l |-> "L",
     m |-> "M", n |-> "N", o |-> "O", p |-> "P", q |-> "Q", r |-> "R",
     s |-> "S", t |-> "T", u |-> "U", v |-> "V", w |-> "W", x |-> "X",
     y |-> "Y", z |-> "Z"]

\* text.toUpperCase()
ToUpperCase(text) ==
    [i \in 1..Len(text) |->
        IF text[i] \in DOMAIN UpperOf THEN UpperOf[text[i]] ELSE text[i]]

\* The words the three ifs look for.
Confirmed == <<"C", "O", "N", "F", "I", "R", "M", "E", "D">>
Advised == <<"A", "D", "V", "I", "S", "E", "D">>
Shipped == <<"S", "H", "I", "P", "P", "E", "D">>
Dispatched == <<"D", "I", "S", "P", "A", "T", "C", "H", "E", "D">>
Delivered == <<"D", "E", "L", "I", "V", "E", "R", "E", "D">>
Completed == <<"C", "O", "M", "P", "L", "E", "T", "E", "D">>

\* The text is the word, nothing before or after it.
IncludesExactly(text, word) == text = word

\* text.includes(word)
Includes(text, word) ==
    \E i \in 0..(Len(text) - Len(word)) : SubSeq(text, i + 1, i + Len(word)) = word

\* const itscopeStatus = dealStatus.status.toUpperCase(), then the three
\* ifs that map it; a later one wins.
MapStatus(old, text) ==
    LET itscopeStatus == ToUpperCase(text)
        s1 == IF Includes(itscopeStatus, Confirmed)
                 \/ Includes(itscopeStatus, Advised)
                THEN "confirmed" ELSE old
        s2 == IF Includes(itscopeStatus, Shipped)
                 \/ Includes(itscopeStatus, Dispatched)
                THEN "shipped" ELSE s1
    IN  IF Includes(itscopeStatus, Delivered)
           \/ Includes(itscopeStatus, Completed)
          THEN "delivered" ELSE s2

\* Every group of the order is sent under the same own order id
\* (`SH${order.order_number}`), so a search by own order id can return the
\* deal of any distributor of the order; a search by deal id returns that deal.
LookupIdOwn(order) ==
    [field |-> "itscopeOwnOrderId", id |-> order.itscopeOwnOrderId]

\* const lookupId = order.itscopeDealId || order.itscopeOwnOrderId
LookupId(order) ==
    IF order.itscopeDealId # Null
      THEN [field |-> "itscopeDealId", id |-> order.itscopeDealId]
      ELSE [field |-> "itscopeOwnOrderId", id |-> order.itscopeOwnOrderId]

\* the deals the supplier's search finds: the deal with the deal id, or the
\* deals that were sent under the own order id
DealsFound(order) ==
    IF LookupId(order).field = "itscopeDealId"
      THEN {g \in {order.distributorId} : supStatus[g] # Null}
      ELSE {g \in Distributors : supStatus[g] # Null}

\* trackingNumber && newStatus === "shipped" && order.status !== "shipped"
NeedsFulfillment(order, status, tracking) ==
    tracking # Null /\ status = "shipped" /\ order.status # "shipped"

\* getDealStatus returned null (HTTP error, or no deal found): continue
PollNothing(r) ==
    /\ UNCHANGED <<stockVars, sideVars>>
    /\ runPc[r] = "loop"
    /\ pendingOrders[r] # <<>>
    /\ pendingOrders' = [pendingOrders EXCEPT ![r] = Tail(@)]
    /\ UNCHANGED <<received, sessions>>
    /\ UNCHANGED <<lineItems, orderNumber, ledger, fwdVars, supVars, runPc, newStatus, trackingNumber,
                   shopVars>>
    /\ statusSteady' = "none"
    /\ UNCHANGED statusCounters

PollThrowsAborts(r) ==
    /\ UNCHANGED <<stockVars, sideVars>>
    /\ runPc[r] = "loop"
    /\ pendingOrders[r] # <<>>
    /\ pendingOrders' = [pendingOrders EXCEPT ![r] = <<>>]
    /\ statusErrors' = [statusErrors EXCEPT ![r] = @ + 1]
    /\ UNCHANGED <<received, sessions>>
    /\ UNCHANGED <<lineItems, orderNumber, ledger, fwdVars, supVars, runPc, newStatus, trackingNumber,
                   shopVars, statusUpdated, polled>>
    /\ statusSteady' = "none"

\* getDealStatus throws (the request fails): the catch of the loop counts
\* an error and the loop goes on with the next order.
PollThrows(r) ==
    /\ UNCHANGED <<stockVars, sideVars>>
    /\ runPc[r] = "loop"
    /\ pendingOrders[r] # <<>>
    /\ pendingOrders' = [pendingOrders EXCEPT ![r] = Tail(@)]
    /\ statusErrors' = [statusErrors EXCEPT ![r] = @ + 1]
    /\ UNCHANGED <<received, sessions>>
    /\ UNCHANGED <<lineItems, orderNumber, ledger, fwdVars, supVars, runPc, newStatus, trackingNumber,
                   shopVars, statusUpdated, polled>>
    /\ statusSteady' = "none"

\* getDealStatus returned a deal; the dispatch document, when the deal names
\* one, is fetched and read (a failed fetch gives no tracking number).
PollStatus(r) ==
    /\ UNCHANGED <<stockVars, sideVars>>
    /\ runPc[r] = "loop"
    /\ pendingOrders[r] # <<>>
    /\ LET order == Head(pendingOrders[r]) IN
       \E g \in DealsFound(order), docOk \in BOOLEAN :
          LET status == MapStatus(order.status, SupplierText[supStatus[g]])
              tracking == IF supDispatch[g] /\ docOk
                            THEN "track" ELSE order.trackingNumber
          IN  /\ newStatus' = [newStatus EXCEPT ![r] = status]
              /\ trackingNumber' = [trackingNumber EXCEPT ![r] = tracking]
              /\ runPc' = [runPc EXCEPT ![r] =
                    IF NeedsFulfillment(order, status, tracking)
                      THEN "fulfill" ELSE "update"]
              /\ statusSteady' = IF supDispatch[g] /\ ~docOk
                                   THEN "none" ELSE statusSteady
    /\ UNCHANGED <<received, sessions>>
    /\ UNCHANGED <<lineItems, orderNumber, ledger, fwdVars, supVars, pendingOrders, shopVars>>
    /\ UNCHANGED statusCounters

\* await createShopifyFulfillment(...): no session (returns silently), the
\* fulfillment is created, or a storefront request throws and the throw is
\* passed on to the catch of the loop body, which skips the update.
Fulfill(r) ==
    /\ UNCHANGED <<stockVars, sideVars>>
    /\ runPc[r] = "fulfill"
    /\ LET g == Head(pendingOrders[r]).distributorId IN
       /\ fulfillCalls' = [fulfillCalls EXCEPT ![g] = @ + 1]
       /\ \/ /\ runPc' = [runPc EXCEPT ![r] = "update"]
             /\ UNCHANGED <<fulfilled, fulfillThrows, pendingOrders,
                            newStatus, trackingNumber>>
          \/ /\ fulfilled' = [fulfilled EXCEPT ![g] = TRUE]
             /\ runPc' = [runPc EXCEPT ![r] = "update"]
             /\ UNCHANGED <<fulfillThrows, pendingOrders, newStatus,
                            trackingNumber>>
          \/ /\ fulfillThrows[g] < MaxFulfillFaults
             /\ fulfillThrows' = [fulfillThrows EXCEPT ![g] = @ + 1]
             /\ pendingOrders' = [pendingOrders EXCEPT ![r] = Tail(@)]
             /\ runPc' = [runPc EXCEPT ![r] = "loop"]
             /\ newStatus' = [newStatus EXCEPT ![r] = Null]
             /\ trackingNumber' = [trackingNumber EXCEPT ![r] = Null]
             /\ UNCHANGED fulfilled
    /\ UNCHANGED <<received, sessions>>
    /\ UNCHANGED <<lineItems, orderNumber, ledger, fwdVars, supVars>>
    /\ statusSteady' = IF fulfillThrows' # fulfillThrows THEN "none" ELSE statusSteady
    /\ statusErrors' = IF fulfillThrows' # fulfillThrows
                         THEN [statusErrors EXCEPT ![r] = @ + 1] ELSE statusErrors
    /\ UNCHANGED <<statusUpdated, polled>>

\* data: { status: newStatus, trackingNumber, ... } of prisma.order.update
UpdatedRowTracking(row, status, tracking) ==
    [row EXCEPT !.trackingNumber = tracking]

UpdatedRow(row, status, tracking) ==
    [row EXCEPT !.status = status, !.trackingNumber = tracking]

\* await prisma.order.update({ where: { id: order.id }, data: {...} })
Update(r) ==
    /\ UNCHANGED <<stockVars, sideVars>>
    /\ runPc[r] = "update"
    /\ LET g == Head(pendingOrders[r]).distributorId IN
       ledger' = [ledger EXCEPT ![g] =
                     UpdatedRow(@, newStatus[r], trackingNumber[r])]
    /\ pendingOrders' = [pendingOrders EXCEPT ![r] = Tail(@)]
    /\ runPc' = [runPc EXCEPT ![r] = "loop"]
    /\ newStatus' = [newStatus EXCEPT ![r] = Null]
    /\ trackingNumber' = [trackingNumber EXCEPT ![r] = Null]
    /\ UNCHANGED <<received, sessions>>
    /\ UNCHANGED <<lineItems, orderNumber, fwdVars, supVars, shopVars>>
    /\ UNCHANGED statusSteady
    /\ statusUpdated' = IF newStatus[r] # Head(pendingOrders[r]).status
                          THEN [statusUpdated EXCEPT ![r] = @ + 1] ELSE statusUpdated
    /\ UNCHANGED <<statusErrors, polled>>

\* ------------------------------------------ the status mapping alone
\* Pieces of status texts, in upper, lower and mixed case.
Fragments ==
    {<<"C", "o", "n", "f", "i", "r", "m", "e", "d">>,
     <<"A", "D", "V", "I", "S", "E", "D">>,
     <<"s", "h", "i", "p", "p", "e", "d">>,
     <<"D", "i", "s", "p", "a", "t", "c", "h", "e", "d">>,
     <<"D", "E", "L", "I", "V", "E", "R", "E", "D">>,
     <<"c", "o", "m", "p", "l", "e", "t", "e", "d">>,
     <<"R", "e", "c", "e", "i", "v", "e", "d">>,
     <<"i", "n", " ", "p", "r", "o", "g", "r", "e", "s", "s", " ">>,
     <<"u", "n">>,
     <<"n", "o", "t", " ">>}

\* Status texts of one or two pieces.
StatusTexts == {a \o b : a \in Fragments, b \in Fragments \cup {<<>>}}

\* The mapping applied to the status of a polled order and a status text.
MapText ==
    /\ \E old \in PolledStatuses, text \in StatusTexts :
          /\ mapInput' = [old |-> old, text |-> text]
          /\ mapOutput' = MapStatus(old, text)
    /\ UNCHANGED <<orderVars, stockVars, importVars, xmlVars, forwarded, docVars>>

\* ------------------------------------ free text in the order document
\* str.replace(/ch/g, entity): every occurrence of the character is replaced
RECURSIVE ReplaceAll(_, _, _)
ReplaceAll(str, ch, entity) ==
    IF str = <<>> THEN <<>>
    ELSE (IF Head(str) = ch THEN entity ELSE <<Head(str)>>)
            \o ReplaceAll(Tail(str), ch, entity)

Amp == <<"&", "a", "m", "p", ";">>
Lt == <<"&", "l", "t", ";">>
Gt == <<"&", "g", "t", ";">>
Quot == <<"&", "q", "u", "o", "t", ";">>
Apos == <<"&", "a", "p", "o", "s", ";">>

EscapeXmlAmpLast(str) ==
    ReplaceAll(ReplaceAll(ReplaceAll(ReplaceAll(ReplaceAll(str,
        "<", Lt), ">", Gt), "\"", Quot), "'", Apos), "&", Amp)

EscapeXml(str) ==
    ReplaceAll(ReplaceAll(ReplaceAll(ReplaceAll(ReplaceAll(str,
        "&", Amp), "<", Lt), ">", Gt), "\"", Quot), "'", Apos)

\* free-text fields of the order parameters
TextFields == {"orderId", "buyerCompany", "description", "remarks"}

\* pieces the field values are made of
TextPieces ==
    {<<"a">>, <<"&">>, <<"<">>, <<">">>, <<"\"">>, <<"'">>,
     <<"&", "l", "t", ";">>, <<"&", "a", "m", "p", ";">>}

FieldValues ==
    {<<>>} \cup TextPieces
        \cup {a \o b : a \in TextPieces, b \in TextPieces}
        \cup {a \o b \o c : a \in TextPieces, b \in TextPieces, c \in TextPieces}

\* no document built yet
NotBuilt == <<"not built">>

\* buildOrderXml puts the escaped value of the field between its tags
BuildOrderXml ==
    /\ xmlOutput = NotBuilt
    /\ xmlOutput' = EscapeXml(xmlInput)
    /\ UNCHANGED <<xmlField, xmlInput>>
    /\ UNCHANGED <<orderVars, stockVars, mapVars, importVars, forwarded, docVars>>

\* ------------------------------------------ the orders of all shops
Nines(n) == [i \in 1..n |-> "9"]

\* order numbers as the storefront counts them, each shop on its own, and
\* numbers as long as the identifier and longer
ShopOrderNumbers ==
    {<<"1", "0", "0", "1">>, <<"1", "0", "0", "2">>, <<"1", "0", "0", "3">>,
     Nines(MaxOwnOrderId - 3), Nines(MaxOwnOrderId - 2),
     Nines(MaxOwnOrderId - 2) \o <<"1">>, Nines(MaxOwnOrderId - 2) \o <<"2">>}

\* handleOrderCreated for an order of a shop with a product of the
\* distributor: the row it records
ForwardOrder(shop, number, distributorId) ==
    /\ Cardinality(forwarded) < MaxOrders
    /\ forwarded' = forwarded \cup
          {[shop |-> shop, orderNumber |-> number,
            distributorId |-> distributorId,
            itscopeOwnOrderId |-> OwnOrderId(number)]}
    /\ UNCHANGED <<orderVars, stockVars, mapVars, importVars, xmlVars, docVars>>

NextOrders ==
    \E shop \in Shops, number \in ShopOrderNumbers, g \in Distributors :
        ForwardOrder(shop, number, g)

\* ------------------------- parties and line items of the order document
\* Text is a sequence of pieces (words, blanks, or the characters of a ZIP
\* code); the empty string and an undefined field are both <<>>, as the
\* code reads them with || only.

\* a || b
OrElse(a, b) == IF a = <<>> THEN b ELSE a

\* str.trim()
Trim(str) ==
    LET kept == {i \in 1..Len(str) : str[i] # " "} IN
    IF kept = {} THEN <<>>
    ELSE SubSeq(str, CHOOSE i \in kept : \A j \in kept : i <= j,
                     CHOOSE i \in kept : \A j \in kept : i >= j)

\* zip.replace(/^[A-Z]+-/, ""): leading capitals and the hyphen after them
\* are dropped ("A-1090" gives "1090")
StripZipPrefix(zip) ==
    LET UpperLetters == {UpperOf[c] : c \in DOMAIN UpperOf}
        k == CHOOSE n \in 0..Len(zip) :
                /\ \A i \in 1..n : zip[i] \in UpperLetters
                /\ n < Len(zip) => zip[n + 1] \notin UpperLetters
    IN  IF k >= 1 /\ k < Len(zip) /\ zip[k + 1] = "-"
          THEN SubSeq(zip, k + 2, Len(zip)) ELSE zip

\* process.env: the merchant's account id and address
Env ==
    [ITSCOPE_ACCOUNT_ID |-> <<"account">>,
     COMPANY_NAME |-> <<"Merchant">>,
     COMPANY_STREET |-> <<"Ring", " ", "1">>,
     COMPANY_ZIP |-> <<"D", "-", "1", "0", "1">>,
     COMPANY_CITY |-> <<"Berlin">>,
     COMPANY_COUNTRY |-> <<"DE">>]

\* An address of a storefront order; given = FALSE is an order without it.
Address(given, first_name, last_name, company, address1, address2, zip, city, country_code) ==
    [given |-> given, first_name |-> first_name, last_name |-> last_name,
     company |-> company, address1 |-> address1, address2 |-> address2,
     zip |-> zip, city |-> city, country_code |-> country_code]

\* {}: every field undefined
NoAddress == Address(FALSE, <<>>, <<>>, <<>>, <<>>, <<>>, <<>>, <<>>, <<>>)

\* params.customerParty undefined
NoCustomerParty ==
    [given |-> FALSE, company |-> <<>>, firstName |-> <<>>,
     lastName |-> <<>>, street |-> <<>>, zip |-> <<>>, city |-> <<>>,
     country |-> <<>>]

\* The parameters handleOrderCreated calls buildOrderXml with for a group:
\* the parties and the line items (one per product; neither productType
\* nor customerParty is passed); the delivery fields only when drop-shipped.
OrderParams(order) ==
    LET \* products.some((p) => p.shippingMode === "dropship")
        isDropship == \E i \in 1..Len(order.products) :
                         order.products[i].shippingMode = "dropship"
        \* order.shipping_address || order.billing_address || {}
        shippingAddress ==
            IF order.shipping_address.given THEN order.shipping_address
            ELSE IF order.billing_address.given THEN order.billing_address
            ELSE NoAddress
        Delivery(value) == IF isDropship THEN value ELSE <<>>
    IN  [dropship |-> isDropship,
         buyerPartyId |-> Env.ITSCOPE_ACCOUNT_ID,
         buyerCompany |-> OrElse(Env.COMPANY_NAME, <<"My", " ", "Company">>),
         buyerStreet |-> Env.COMPANY_STREET,
         buyerZip |-> Env.COMPANY_ZIP,
         buyerCity |-> Env.COMPANY_CITY,
         buyerCountry |-> OrElse(Env.COMPANY_COUNTRY, <<"DE">>),
         deliveryCompany |-> Delivery(
            OrElse(Trim(shippingAddress.first_name \o <<" ">>
                           \o shippingAddress.last_name),
                   shippingAddress.company)),
         deliveryName |-> Delivery(shippingAddress.company),
         deliveryStreet |-> Delivery(
            shippingAddress.address1
               \o (IF shippingAddress.address2 # <<>>
                     THEN <<" ">> \o shippingAddress.address2 ELSE <<>>)),
         deliveryZip |-> Delivery(shippingAddress.zip),
         deliveryCity |-> Delivery(shippingAddress.city),
         deliveryCountry |-> Delivery(
            OrElse(shippingAddress.country_code, <<"DE">>)),
         customerParty |-> NoCustomerParty,
         lineItems |-> [i \in 1..Len(order.products) |->
                          [supplierPid |-> order.products[i].id,
                           productType |-> <<>>]]]

\* A PARTY element: its role, its PARTY_ID and its ADDRESS.
Party(role, id, name, name2, street, zip, city, country) ==
    [role |-> role, id |-> EscapeXml(id), name |-> EscapeXml(name),
     name2 |-> EscapeXml(name2), street |-> EscapeXml(street),
     zip |-> EscapeXml(zip), city |-> EscapeXml(city),
     country |-> EscapeXml(country)]

\* Every line item with a marker refers to the customer party.
HasCustomerReferenceMarked(item, params) == item.productType # <<>>

\* item.productType && params.customerParty ? CUSTOMER_ORDER_REFERENCE : ""
HasCustomerReference(item, params) ==
    item.productType # <<>> /\ params.customerParty.given

\* The document buildOrderXml returns: its PARTIES in order, its line items
\* (number, PRODUCT_TYPE and CUSTOMER_IDREF, <<>>: none) and whether it
\* carries UDX.DROPSHIPMENT.  The contact details and the phone, which
\* handleOrderCreated never passes, are left out.
OrderDocument(params) ==
    LET deliveryParty ==
            IF params.dropship
              THEN Party("delivery", params.buyerPartyId,
                     OrElse(params.deliveryCompany, params.buyerCompany),
                     params.deliveryName,
                     OrElse(params.deliveryStreet, params.buyerStreet),
                     StripZipPrefix(OrElse(params.deliveryZip, params.buyerZip)),
                     OrElse(params.deliveryCity, params.buyerCity),
                     OrElse(params.deliveryCountry, params.buyerCountry))
              ELSE Party("delivery", params.buyerPartyId, params.buyerCompany,
                     <<>>, params.buyerStreet,
                     StripZipPrefix(params.buyerZip),
                     params.buyerCity, params.buyerCountry)
        \* params.lineItems.some((item) => item.productType)
        hasLicenseeItems ==
            \E i \in 1..Len(params.lineItems) :
                params.lineItems[i].productType # <<>>
        \* `${params.buyerPartyId}_CUSTOMER`
        customerPartyId == params.buyerPartyId \o <<"_CUSTOMER">>
        \* the block, or "" (no block)
        customerPartyXml ==
            IF hasLicenseeItems /\ params.customerParty.given
              THEN <<Party("customer", customerPartyId,
                       OrElse(params.customerParty.company,
                              params.customerParty.firstName \o <<" ">>
                                 \o params.customerParty.lastName),
                       <<>>, params.customerParty.street,
                       params.customerParty.zip, params.customerParty.city,
                       params.customerParty.country)>>
              ELSE <<>>
        orderItems ==
            [i \in 1..Len(params.lineItems) |->
                LET item == params.lineItems[i] IN
                [lineItemId |-> i,
                 supplierPid |-> EscapeXml(item.supplierPid),
                 productType |-> EscapeXml(item.productType),
                 customerIdref |-> IF HasCustomerReference(item, params)
                                     THEN EscapeXml(customerPartyId)
                                     ELSE <<>>]]
    IN  [parties |->
            <<Party("supplier", <<"supplier">>, <<>>, <<>>, <<>>, <<>>, <<>>,
                    <<>>),
              Party("buyer", params.buyerPartyId, params.buyerCompany, <<>>,
                    params.buyerStreet, params.buyerZip, params.buyerCity,
                    params.buyerCountry),
              deliveryParty>> \o customerPartyXml,
         items |-> orderItems,
         dropshipment |-> params.dropship]

\* no group taken up yet, no parameters and no document built yet
NoOrder ==
    [products |-> <<>>, shipping_address |-> NoAddress,
     billing_address |-> NoAddress]
NoParams == [lineItems |-> <<>>]
NoDocument == [parties |-> <<>>, items |-> <<>>, dropshipment |-> FALSE]

\* handleOrderCreated puts together the parameters of a group's document
BuildOrderParams ==
    /\ docOrder # NoOrder /\ docParams = NoParams
    /\ docParams' = OrderParams(docOrder)
    /\ UNCHANGED <<docOrder, docXml>>
    /\ UNCHANGED <<orderVars, stockVars, mapVars, importVars, xmlVars,
                   forwarded>>

\* buildOrderXml(params)
BuildOrderDocument ==
    /\ docParams # NoParams /\ docXml = NoDocument
    /\ docXml' = OrderDocument(docParams)
    /\ UNCHANGED <<docOrder, docParams>>
    /\ UNCHANGED <<orderVars, stockVars, mapVars, importVars, xmlVars,
                   forwarded>>

NextDocument == BuildOrderParams \/ BuildOrderDocument

\* ------------------------------- importing and removing tracked products
Skus == {"k1", "k2"}
Imports == 1..MaxImports

\* findUnique returned null
NoExisting == [id |-> 0, sku |-> Null, active |-> FALSE]

RowsOf(sku) == {row \in trackedRows : row.sku = sku}

\* findUnique by the key (shop, itscopeSku): the one row of the SKU, or null
FindUnique(sku) ==
    IF RowsOf(sku) = {} THEN NoExisting ELSE CHOOSE row \in RowsOf(sku) : TRUE

\* The response ends the request.
Respond(q, status) ==
    /\ answer' = [answer EXCEPT ![q] = status]
    /\ importPc' = [importPc EXCEPT ![q] = "done"]

\* POST: the check whether the SKU is already tracked.
PostExisting(q, sku) ==
    /\ UNCHANGED <<orderVars, stockVars, mapVars, xmlVars, forwarded, docVars>>
    /\ importPc[q] = "idle"
    \* requests are interchangeable: the lowest one not yet made is taken
    /\ \A o \in Imports : o < q => importPc[o] # "idle"
    /\ importSku' = [importSku EXCEPT ![q] = sku]
    /\ existing' = [existing EXCEPT ![q] = FindUnique(sku)]
    /\ IF FindUnique(sku) # NoExisting /\ FindUnique(sku).active
         THEN Respond(q, 409)
         ELSE /\ importPc' = [importPc EXCEPT ![q] =
                    IF FindUnique(sku) # NoExisting THEN "delete" ELSE "search"]
              /\ UNCHANGED answer
    /\ UNCHANGED <<trackedRows, nextId, storefront>>

\* POST: the row of a product removed earlier is deleted.  A delete of a row
\* that is no longer there throws, outside the handler's try: status 500.
PostDeleteOld(q) ==
    /\ UNCHANGED <<orderVars, stockVars, mapVars, xmlVars, forwarded, docVars>>
    /\ importPc[q] = "delete"
    /\ IF \E row \in trackedRows : row.id = existing[q].id
         THEN /\ trackedRows' = {row \in trackedRows : row.id # existing[q].id}
              /\ importPc' = [importPc EXCEPT ![q] = "search"]
              /\ UNCHANGED answer
         ELSE /\ Respond(q, 500)
              /\ UNCHANGED trackedRows
    /\ UNCHANGED <<nextId, storefront, importSku, existing>>

\* POST: searchProductBySku finds the product or not.
PostSearch(q) ==
    /\ UNCHANGED <<orderVars, stockVars, mapVars, xmlVars, forwarded, docVars>>
    /\ importPc[q] = "search"
    /\ \/ /\ importPc' = [importPc EXCEPT ![q] = "session"]
          /\ UNCHANGED answer
       \/ Respond(q, 404)
    /\ UNCHANGED <<trackedRows, nextId, storefront, importSku, existing>>

\* POST: getOfflineSession finds the shop's session or not.
PostSession(q) ==
    /\ UNCHANGED <<orderVars, stockVars, mapVars, xmlVars, forwarded, docVars>>
    /\ importPc[q] = "session"
    /\ \/ /\ importPc' = [importPc EXCEPT ![q] = "productCreate"]
          /\ UNCHANGED answer
       \/ Respond(q, 401)
    /\ UNCHANGED <<trackedRows, nextId, storefront, importSku, existing>>

\* POST: the storefront product is created; or productCreate reports user
\* errors; or the product is created and a later storefront request throws.
PostProductCreate(q) ==
    /\ UNCHANGED <<orderVars, stockVars, mapVars, xmlVars, forwarded, docVars>>
    /\ importPc[q] = "productCreate"
    /\ \/ /\ storefront' = [storefront EXCEPT ![importSku[q]] = @ + 1]
          /\ importPc' = [importPc EXCEPT ![q] = "create"]
          /\ UNCHANGED answer
       \/ /\ Respond(q, 422)
          /\ UNCHANGED storefront
       \/ /\ storefront' = [storefront EXCEPT ![importSku[q]] = @ + 1]
          /\ Respond(q, 500)
    /\ UNCHANGED <<trackedRows, nextId, importSku, existing>>

\* The table refuses a second row with the same (shop, itscopeSku).
UniqueViolation(sku) == RowsOf(sku) # {}

\* POST: the tracked product is stored; a refused create is caught.
PostCreate(q) ==
    /\ UNCHANGED <<orderVars, stockVars, mapVars, xmlVars, forwarded, docVars>>
    /\ importPc[q] = "create"
    /\ IF UniqueViolation(importSku[q])
         THEN /\ Respond(q, 500)
              /\ UNCHANGED <<trackedRows, nextId>>
         ELSE /\ trackedRows' = trackedRows \cup
                    {[id |-> nextId, sku |-> importSku[q], active |-> TRUE]}
              /\ nextId' = nextId + 1
              /\ Respond(q, 200)
    /\ UNCHANGED <<storefront, importSku, existing>>

\* DELETE: the row with the id is marked inactive.
Delete(id) ==
    /\ UNCHANGED <<orderVars, stockVars, mapVars, xmlVars, forwarded, docVars>>
    /\ \E row \in trackedRows :
          /\ row.id = id
          /\ trackedRows' = (trackedRows \ {row}) \cup {[row EXCEPT !.active = FALSE]}
    /\ UNCHANGED <<nextId, storefront, importPc, importSku, existing, answer>>

\* ------------------------------------------------ stock/price cron job

\* findMany({ where: { active: true } })
SelectActive ==
    LET Pick(i) == IF trackedProducts[ProductOrder[i]].active
                     THEN <<trackedProducts[ProductOrder[i]]
                              @@ [id |-> ProductOrder[i]]>>
                     ELSE <<>>
        R[i \in 0..Len(ProductOrder)] ==
            IF i = 0 THEN <<>> ELSE R[i - 1] \o Pick(i)
    IN  R[Len(ProductOrder)]

\* The first row of a shop only.
FirstOfShop(rows, shop) ==
    SubSeq(SelectSeq(rows, LAMBDA tp : tp.shop = shop), 1, 1)

\* The rows of one shop, in their order.
OfShop(rows, shop) == SelectSeq(rows, LAMBDA tp : tp.shop = shop)
NotOfShop(rows, shop) == SelectSeq(rows, LAMBDA tp : tp.shop # shop)

\* byShop: a Map keeps its keys in insertion order, so the shops come in the
\* order of their first row and each shop's rows stay together.
RECURSIVE ByShop(_)
ByShop(rows) ==
    IF rows = <<>> THEN <<>>
    ELSE OfShop(rows, Head(rows).shop)
            \o ByShop(NotOfShop(rows, Head(rows).shop))

\* const trackedProducts = await prisma.trackedProduct.findMany(...); the
\* rows are grouped by shop and the counters start at 0.
StartStockRun(r) ==
    /\ UNCHANGED <<orderVars, sideVars>>
    /\ stockPc[r] = "idle"
    \* invocation slots are interchangeable: the lowest free one is taken
    /\ \A q \in StockRuns : q < r => stockPc[q] # "idle"
    /\ stockPc' = [stockPc EXCEPT ![r] = "session"]
    /\ stockQueue' = [stockQueue EXCEPT ![r] = ByShop(SelectActive)]
    /\ UNCHANGED <<trackedProducts, offerVars, newPrice, stockCounters>>
    /\ stockSteady' = RunStarts(stockSteady)
    /\ UNCHANGED inventoryCalls

\* getOfflineSession(shop) found the session of the next shop: the loop over
\* its products begins.
StockSession(r) ==
    /\ UNCHANGED <<orderVars, sideVars>>
    /\ stockPc[r] = "session"
    /\ stockQueue[r] # <<>>
    /\ stockPc' = [stockPc EXCEPT ![r] = "fetch"]
    /\ UNCHANGED <<trackedProducts, offerVars, stockQueue, newPrice,
                   stockCounters>>
    /\ UNCHANGED stockSteady
    /\ UNCHANGED inventoryCalls

\* getOfflineSession(shop) found no session: errors += products.length and
\* the shop's products are skipped (continue).
StockNoSession(r) ==
    /\ UNCHANGED <<orderVars, sideVars>>
    /\ stockPc[r] = "session"
    /\ stockQueue[r] # <<>>
    /\ LET shop == Head(stockQueue[r]).shop IN
       /\ stockErrors' = [stockErrors EXCEPT ![r] =
                             @ + Len(OfShop(stockQueue[r], shop))]
       /\ stockQueue' = [stockQueue EXCEPT ![r] = NotOfShop(@, shop)]
       /\ stockSkipped' = [stockSkipped EXCEPT ![r] = @ \cup {shop}]
    /\ UNCHANGED <<trackedProducts, offerVars, stockPc, newPrice, stockUpdated>>
    /\ stockSteady' = "none"
    /\ UNCHANGED inventoryCalls

\* The loops are exhausted: return NextResponse.json({ updated, errors })
FinishStockRun(r) ==
    /\ UNCHANGED <<orderVars, sideVars>>
    /\ stockPc[r] = "session"
    /\ stockQueue[r] = <<>>
    /\ stockPc' = [stockPc EXCEPT ![r] = "idle"]
    /\ stockUpdated' = [stockUpdated EXCEPT ![r] = 0]
    /\ stockErrors' = [stockErrors EXCEPT ![r] = 0]
    /\ stockSkipped' = [stockSkipped EXCEPT ![r] = {}]
    /\ UNCHANGED <<trackedProducts, offerVars, stockQueue, newPrice>>
    /\ stockSteady' = RunEnds(stockSteady)
    /\ inventoryCalls' = [inventoryCalls EXCEPT ![r] = <<>>]

\* The loop body is left for the next product of the shop, or for the next
\* shop: by continue, by the catch (errors++), or past the update.
SkipProduct(r) ==
    /\ stockQueue' = [stockQueue EXCEPT ![r] = Tail(@)]
    /\ stockPc' = [stockPc EXCEPT ![r] =
          IF Tail(stockQueue[r]) # <<>>
             /\ Head(Tail(stockQueue[r])).shop = Head(stockQueue[r]).shop
            THEN "fetch" ELSE "session"]
    /\ newPrice' = [newPrice EXCEPT ![r] = NoPrice]

\* } catch (error) { ...; errors++; }
CatchErrorAborts(r) ==
    /\ stockQueue' = [stockQueue EXCEPT ![r] = <<>>]
    /\ stockPc' = [stockPc EXCEPT ![r] = "session"]
    /\ newPrice' = [newPrice EXCEPT ![r] = NoPrice]
    /\ stockErrors' = [stockErrors EXCEPT ![r] = @ + 1]
    /\ UNCHANGED <<stockUpdated, stockSkipped>>

CatchError(r) ==
    /\ SkipProduct(r)
    /\ stockErrors' = [stockErrors EXCEPT ![r] = @ + 1]
    /\ UNCHANGED <<stockUpdated, stockSkipped>>

\* What getProductStock returns for the bound distributor: the offer's
\* standard price and its project entries (a missing price parses as 0).
SelectedOffer(id) == [price |-> offerPrice[id], projects |-> offerProjects[id]]

\* selectedOffer.projects.find(p => p.manufacturerProjectId === projectId):
\* the index of the first entry with that id, 0 when there is none.
FindProject(projects, projectId) ==
    IF \E i \in 1..Len(projects) : projects[i].manufacturerProjectId = projectId
      THEN CHOOSE i \in 1..Len(projects) :
              /\ projects[i].manufacturerProjectId = projectId
              /\ \A j \in 1..(i - 1) :
                    projects[j].manufacturerProjectId # projectId
      ELSE 0

\* The offer's standard price, whatever the project entries are.
ResolveStandardPrice(product, offer) == offer.price

\* const projectMatch = product.projectId ? find(...) : null
\* const newPrice = projectMatch?.price ?? selectedOffer.price
ResolvePrice(product, offer) ==
    LET projectMatch == IF product.projectId # Null
                          THEN FindProject(offer.projects, product.projectId)
                          ELSE 0
    IN  IF projectMatch # 0 THEN offer.projects[projectMatch].price
        ELSE offer.price

\* Every product is taken to the supplier.
SyncedAlways(product) == TRUE

\* if (!product.itscopeProductId) continue;
\* if (product.productType === "Warranty") continue;
Synced(product) ==
    product.itscopeProductId # Null /\ product.productType # "Warranty"

\* A product without supplier id and a warranty are passed over (continue).
\* Else await getProductStock(...): the bound distributor's offer is found
\* and gives newPrice; or there is no such offer (continue); or the call
\* throws.
FetchOffer(r) ==
    /\ UNCHANGED <<orderVars, sideVars>>
    /\ stockPc[r] = "fetch"
    /\ stockQueue[r] # <<>>
    /\ LET product == Head(stockQueue[r]) IN
       IF ~Synced(product)
         THEN SkipProduct(r) /\ UNCHANGED stockCounters
         ELSE \/ /\ newPrice' = [newPrice EXCEPT ![r] =
                      ResolvePrice(product, SelectedOffer(product.id))]
                 /\ stockPc' = [stockPc EXCEPT ![r] = "push"]
                 /\ UNCHANGED <<stockQueue, stockCounters>>
              \/ SkipProduct(r) /\ UNCHANGED stockCounters
              \/ CatchError(r)
    /\ UNCHANGED <<trackedProducts, offerVars>>
    /\ stockSteady' = IF stockPc'[r] = "push" THEN stockSteady ELSE "none"
    /\ inventoryCalls' = [inventoryCalls EXCEPT ![r] = <<>>]

\* getLocationId, inventoryActivate (its failure is swallowed) and
\* inventorySetQuantities: they return, or a request throws into the catch.
InventoryCallsStrict(activated, quantitySet) ==
    IF activated
      THEN <<[call |-> "inventoryActivate", ok |-> TRUE],
             [call |-> "inventorySetQuantities", ok |-> quantitySet]>>
      ELSE <<[call |-> "inventoryActivate", ok |-> FALSE]>>

\* inventoryActivate in a try of its own, then inventorySetQuantities
InventoryCalls(activated, quantitySet) ==
    <<[call |-> "inventoryActivate", ok |-> activated],
      [call |-> "inventorySetQuantities", ok |-> quantitySet]>>

\* the request that ended the calls did not return: it threw
Threw(calls) == calls # <<>> /\ ~calls[Len(calls)].ok

\* The storefront inventory of the product: no request when the product has
\* no inventory item or the shop no location; getLocationId may throw.
PushInventory(r) ==
    /\ UNCHANGED <<orderVars, sideVars>>
    /\ stockPc[r] = "push"
    /\ \E located \in {"none", "found", "throws"},
          activated \in BOOLEAN, quantitySet \in BOOLEAN :
          LET calls == IF located = "found"
                         THEN InventoryCalls(activated, quantitySet) ELSE <<>>
          IN  /\ located # "found" => activated /\ quantitySet
              /\ inventoryCalls' = [inventoryCalls EXCEPT ![r] = calls]
              /\ IF located = "throws" \/ Threw(calls)
                   THEN CatchError(r)
                   ELSE /\ stockPc' = [stockPc EXCEPT ![r] = "update"]
                        /\ UNCHANGED <<stockQueue, newPrice, stockCounters>>
    /\ UNCHANGED <<trackedProducts, offerVars>>
    /\ stockSteady' = IF stockPc'[r] = "update" THEN stockSteady ELSE "none"

\* const referencePrice = product.importPrice ?? product.lastPrice ?? 0
ReferencePrice(product) ==
    IF product.importPrice # NoPrice THEN product.importPrice
    ELSE IF product.lastPrice # NoPrice THEN product.lastPrice
    ELSE 0

\* A price equal to the reference counts as an increase.
PriceNotLower(product, price) == price >= ReferencePrice(product)

\* const priceIncreased = newPrice > referencePrice
PriceIncreased(product, price) == price > ReferencePrice(product)

\* The flag follows the comparison, so a lower price clears it.
NextPriceAlertCleared(product, priceIncreased) == priceIncreased

\* priceAlert: priceIncreased ? true : product.priceAlert
NextPriceAlert(product, priceIncreased) ==
    IF priceIncreased THEN TRUE ELSE product.priceAlert

\* await prisma.trackedProduct.update({ where: { id: product.id }, data })
UpdateProduct(r) ==
    /\ UNCHANGED <<orderVars, sideVars>>
    /\ stockPc[r] = "update"
    /\ LET product == Head(stockQueue[r]) IN
       trackedProducts' = [trackedProducts EXCEPT ![product.id] =
          [@ EXCEPT !.lastPrice = newPrice[r],
                    !.priceAlert = NextPriceAlert(product,
                                      PriceIncreased(product, newPrice[r]))]]
    /\ SkipProduct(r)
    /\ stockUpdated' = [stockUpdated EXCEPT ![r] = @ + 1]
    /\ UNCHANGED <<offerVars, stockErrors, stockSkipped>>
    /\ UNCHANGED stockSteady
    /\ UNCHANGED inventoryCalls

\* The steps of the stock/price job in invocation slot r.
StockJob(r) ==
    \/ StartStockRun(r) \/ StockSession(r) \/ StockNoSession(r)
    \/ FinishStockRun(r)
    \/ FetchOffer(r) \/ PushInventory(r) \/ UpdateProduct(r)

\* A field the request body does not carry.
Undefined == "undefined"

\* PATCH of the tracked-products route:
\* if (projectId !== undefined) updateData.projectId = projectId || null;
\* if (dismissPriceAlert) updateData.priceAlert = false;
\* then trackedProduct.update by id.
Patch(id, projectId, dismissPriceAlert) ==
    /\ UNCHANGED <<orderVars, sideVars>>
    /\ trackedProducts' = [trackedProducts EXCEPT ![id] =
          [@ EXCEPT !.projectId = IF projectId # Undefined THEN projectId ELSE @,
                    !.priceAlert = IF dismissPriceAlert THEN FALSE ELSE @]]
    /\ UNCHANGED <<offerVars, stockJobVars>>
    /\ stockSteady' = "none"

\* The distributor changes the price of its offer (the offers of removed
\* products are never read).
PriceChange(id) ==
    /\ UNCHANGED <<orderVars, sideVars>>
    /\ trackedProducts[id].active
    /\ \E price \in Prices \ {offerPrice[id]} :
          offerPrice' = [offerPrice EXCEPT ![id] = price]
    /\ UNCHANGED <<trackedProducts, offerProjects, stockJobVars>>
    /\ stockSteady' = "none"

\* ------------------------------------------------------ specification
\* The project ids and the prices of project entries (0: no price given).
ProjectIds == {"prj", "other"}
ProjectPrices == {0, 1, MaxPrice}
ProjectEntries == [manufacturerProjectId : ProjectIds, price : ProjectPrices]
ProjectLists == UNION {[1..n -> ProjectEntries] : n \in 0..MaxProjects}

\* No delivery has arrived, the ledger is empty, no job is running.
InitOrders ==
    /\ statusSteady = "none"
    /\ received = [d \in Deliveries |-> NoRequest]
    /\ sessions = Shops
    /\ orderXml = [g \in Distributors |-> <<>>]
    /\ ledger = [g \in Distributors |-> NoRow]
    /\ pc = [d \in Deliveries |-> "idle"]
    /\ cursor = [d \in Deliveries |-> 1]
    /\ result = [d \in Deliveries |-> NoResult]
    /\ submitted = [d \in Deliveries |-> {}]
    /\ claimed = [d \in Deliveries |-> {}]
    /\ threw = [d \in Deliveries |-> NoThrow]
    /\ supStatus = [g \in Distributors |-> Null]
    /\ supDispatch = [g \in Distributors |-> FALSE]
    /\ runPc = [r \in Runs |-> "idle"]
    /\ pendingOrders = [r \in Runs |-> <<>>]
    /\ newStatus = [r \in Runs |-> Null]
    /\ trackingNumber = [r \in Runs |-> Null]
    /\ statusUpdated = [r \in Runs |-> 0]
    /\ statusErrors = [r \in Runs |-> 0]
    /\ polled = [r \in Runs |-> 0]
    /\ fulfillCalls = [g \in Distributors |-> 0]
    /\ fulfillThrows = [g \in Distributors |-> 0]
    /\ fulfilled = [g \in Distributors |-> FALSE]

InitImports ==
    /\ trackedRows = {}
    /\ nextId = 1
    /\ storefront = [sku \in Skus |-> 0]
    /\ importPc = [q \in Imports |-> "idle"]
    /\ importSku = [q \in Imports |-> Null]
    /\ existing = [q \in Imports |-> NoExisting]
    /\ answer = [q \in Imports |-> 0]

InitXml ==
    /\ xmlField = "orderId"
    /\ xmlInput = <<>>
    /\ xmlOutput = NotBuilt

InitJobs ==
    /\ stockSteady = "none"
    /\ mapInput = [old |-> "sent", text |-> <<>>]
    /\ mapOutput = "sent"
    /\ stockPc = [r \in StockRuns |-> "idle"]
    /\ stockQueue = [r \in StockRuns |-> <<>>]
    /\ newPrice = [r \in StockRuns |-> NoPrice]
    /\ inventoryCalls = [r \in StockRuns |-> <<>>]
    /\ stockUpdated = [r \in StockRuns |-> 0]
    /\ stockErrors = [r \in StockRuns |-> 0]
    /\ stockSkipped = [r \in StockRuns |-> {}]

InitDocs ==
    /\ docOrder = NoOrder
    /\ docParams = NoParams
    /\ docXml = NoDocument

InitStockJob ==
    /\ InitImports
    /\ InitXml
    /\ InitDocs
    /\ forwarded = {}
    /\ InitJobs

\* The products a shop tracks at the start; the third one was removed.
ActiveAtStart == {"p1", "p2"}

\* A row as the import creates it, with the columns the jobs read.
ImportedRow(id, shop, importPrice, lastPrice, projectId) ==
    [shop |-> shop, active |-> id \in ActiveAtStart,
     distributorId |-> DistributorOf[id],
     importPrice |-> importPrice, lastPrice |-> lastPrice,
     priceAlert |-> FALSE, projectId |-> projectId,
     itscopeProductId |-> id, productType |-> "Laptop"]

\* A line item of quantity 1.
Item(id) == [product_id |-> id, quantity |-> 1]

\* Orders of one product each of one or of two distributors.
PlainOrders == {<<Item("p1")>>, <<Item("p1"), Item("p2")>>}
PlainNumber == <<"1", "0", "0", "1">>

Init ==
    /\ lineItems \in PlainOrders
    /\ orderNumber = PlainNumber
    /\ InitOrders
    \* rows as the import left them: lastPrice is the offer's price, and
    \* importPrice is that price too, or null in a row of the first import route
    /\ offerPrice = [id \in Products |-> MaxPrice - 1]
    /\ offerProjects = [id \in Products |-> <<>>]
    /\ \E ip \in [ActiveAtStart -> {NoPrice, MaxPrice - 1}] :
          trackedProducts = [id \in Products |->
              ImportedRow(id, "s1",
                          IF id \in ActiveAtStart THEN ip[id] ELSE NoPrice,
                          MaxPrice - 1, Null)]
    /\ InitStockJob

\* An order with a single distributor group.
InitSingle == Init /\ Len(groups) = 1

\* Order numbers: a short one, one that fills the 18 characters with the
\* prefix, and one that is cut.
OrderNumbers ==
    {PlainNumber, [i \in 1..(MaxOwnOrderId - 2) |-> "9"],
     [i \in 1..(MaxOwnOrderId - 1) |-> "9"]}

InitNumbers ==
    /\ lineItems \in PlainOrders
    /\ orderNumber \in OrderNumbers
    /\ InitOrders
    /\ offerPrice = [id \in Products |-> MaxPrice - 1]
    /\ offerProjects = [id \in Products |-> <<>>]
    /\ trackedProducts = [id \in Products |->
          ImportedRow(id, "s1", MaxPrice - 1, MaxPrice - 1, Null)]
    /\ InitStockJob

\* Orders of up to MaxLineItems line items of tracked, removed and untracked
\* products, two line items of one product included.
Orders ==
    UNION {[1..n -> [product_id : Products \cup {Untracked}, quantity : 1..2]] :
             n \in 1..MaxLineItems}

\* Any such order, with the third product removed or still active.
InitItems ==
    /\ lineItems \in Orders
    /\ orderNumber = PlainNumber
    /\ InitOrders
    /\ offerPrice = [id \in Products |-> MaxPrice - 1]
    /\ offerProjects = [id \in Products |-> <<>>]
    /\ \E active \in {ActiveAtStart, Products} :
          trackedProducts = [id \in Products |->
              [ImportedRow(id, "s1", MaxPrice - 1, MaxPrice - 1, Null)
                  EXCEPT !.active = id \in active]]
    /\ InitStockJob

\* Three active products spread over the shops in every way, each with an
\* offer above its import price.
InitShops ==
    /\ lineItems = <<Item("p1")>>
    /\ orderNumber = PlainNumber
    /\ InitOrders
    /\ offerPrice = [id \in Products |-> MaxPrice]
    /\ offerProjects = [id \in Products |-> <<>>]
    /\ \E shopOf \in [Products -> Shops] :
          trackedProducts = [id \in Products |->
              [ImportedRow(id, shopOf[id], MaxPrice - 1, MaxPrice - 1, Null)
                  EXCEPT !.active = TRUE]]
    /\ InitStockJob

\* The rows a catalog may hold: tracked or removed, of a product type the
\* import accepts, and (rows of old imports) without the supplier's id.
CatalogRows(id) ==
    {[ImportedRow(id, "s1", MaxPrice - 1, MaxPrice - 1, Null)
         EXCEPT !.active = active, !.productType = type,
                !.itscopeProductId = itscopeProductId] :
       active \in BOOLEAN, type \in {"Laptop", "Warranty"},
       itscopeProductId \in {id, Null}}

\* Any such catalog, each offer above the import price.
InitCatalog ==
    /\ lineItems = <<Item("p1")>>
    /\ orderNumber = PlainNumber
    /\ InitOrders
    /\ offerPrice = [id \in Products |-> MaxPrice]
    /\ offerProjects = [id \in Products |-> <<>>]
    /\ trackedProducts \in [Products -> UNION {CatalogRows(id) : id \in Products}]
    /\ \A id \in Products : trackedProducts[id] \in CatalogRows(id)
    /\ InitStockJob

\* What the two import routes leave in importPrice and lastPrice: the first
\* route leaves importPrice null, the second one writes the offer's price or
\* 0; lastPrice is the offer's price, or null when the distributor had no
\* offer at the import.
ImportedPrices ==
    {<<NoPrice, MaxPrice - 1>>, <<NoPrice, NoPrice>>,
     <<MaxPrice - 1, MaxPrice - 1>>, <<0, NoPrice>>}

\* The first product with any of these prices.
InitPrices ==
    /\ lineItems = <<Item("p1")>>
    /\ orderNumber = PlainNumber
    /\ InitOrders
    /\ offerPrice = [id \in Products |-> MaxPrice - 1]
    /\ offerProjects = [id \in Products |-> <<>>]
    /\ \E prices \in ImportedPrices :
          trackedProducts = [id \in Products |->
              IF id = "p1"
                THEN ImportedRow(id, "s1", prices[1], prices[2], Null)
                ELSE ImportedRow(id, "s1", MaxPrice - 1, MaxPrice - 1, Null)]
    /\ InitStockJob

\* The product whose offer carries project entries.
\* one order of one tracked product, the only one the stock job reads
InitTwice ==
    /\ lineItems = <<Item("p1")>>
    /\ orderNumber = PlainNumber
    /\ InitOrders
    /\ offerPrice = [id \in Products |-> MaxPrice - 1]
    /\ offerProjects = [id \in Products |-> <<>>]
    /\ \E prices \in ImportedPrices :
          trackedProducts = [id \in Products |->
              IF id = "p1"
                THEN ImportedRow(id, "s1", prices[1], prices[2], Null)
                ELSE [ImportedRow(id, "s1", MaxPrice - 1, MaxPrice - 1, Null)
                         EXCEPT !.active = FALSE]]
    /\ InitStockJob

\* no product tracked yet
InitUntracked ==
    /\ lineItems = <<Item("p1")>>
    /\ orderNumber = PlainNumber
    /\ InitOrders
    /\ offerPrice = [id \in Products |-> MaxPrice - 1]
    /\ offerProjects = [id \in Products |-> <<>>]
    /\ trackedProducts = [id \in Products |->
          [ImportedRow(id, "s1", MaxPrice - 1, MaxPrice - 1, Null)
              EXCEPT !.active = FALSE]]

InitImport == InitUntracked /\ InitStockJob

\* a free-text field of the order parameters and its value
InitFields ==
    /\ InitUntracked
    /\ InitImports
    /\ InitJobs
    /\ forwarded = {}
    /\ xmlField \in TextFields
    /\ xmlInput \in FieldValues
    /\ xmlOutput = NotBuilt
    /\ InitDocs

\* Shipping addresses: each field given or not, the ZIP code with or
\* without a country prefix.
ShippingAddresses ==
    {Address(TRUE, first_name, last_name, company, address1, address2, zip,
             <<"Wien">>, country_code) :
        first_name \in {<<>>, <<"Ada">>}, last_name \in {<<>>, <<"Lovelace">>},
        company \in {<<>>, <<"ACME">>},
        address1 \in {<<>>, <<"Gasse", " ", "7">>},
        address2 \in {<<>>, <<"Top", " ", "2">>},
        zip \in {<<>>, <<"1", "0", "9", "0">>, <<"A", "-", "1", "0", "9", "0">>},
        country_code \in {<<>>, <<"AT">>}}

BillingAddress ==
    Address(TRUE, <<"Bill">>, <<"Payer">>, <<>>, <<"Platz", " ", "3">>, <<>>,
            <<"8", "0", "1", "0">>, <<"Graz">>, <<"AT">>)

\* The products of a group: one or two, each drop-shipped or for the
\* merchant's warehouse.
GroupProducts ==
    UNION {[1..n -> [id : {<<"sku">>}, shippingMode : {"dropship", "warehouse"}]] :
             n \in 1..2}

\* A group of any order: with or without shipping address, with or without
\* billing address.
InitDelivery ==
    /\ InitUntracked
    /\ InitImports
    /\ InitXml
    /\ InitJobs
    /\ forwarded = {}
    /\ docOrder \in [products : GroupProducts,
                     shipping_address : ShippingAddresses \cup {NoAddress},
                     billing_address : {BillingAddress, NoAddress}]
    /\ docParams = NoParams
    /\ docXml = NoDocument

\* Line items with any service-type marker or (<<>>) with none.
LicenseeItems ==
    UNION {[1..n -> [supplierPid : {<<"sku">>},
                     productType : {<<>>, <<"service">>, <<"license">>,
                                    <<"esd">>}]] :
             n \in 1..MaxLineItems}

CustomerParty ==
    [given |-> TRUE, company |-> <<>>, firstName |-> <<"Ada">>,
     lastName |-> <<"Lovelace">>, street |-> <<"Gasse", " ", "7">>,
     zip |-> <<"1", "0", "9", "0">>, city |-> <<"Wien">>,
     country |-> <<"AT">>]

\* Parameters of buildOrderXml: for the warehouse or drop-shipped, any line
\* items with or without marker, with or without customer party.
InitLicensee ==
    /\ InitUntracked
    /\ InitImports
    /\ InitXml
    /\ InitJobs
    /\ forwarded = {}
    /\ docOrder = NoOrder
    /\ \E mode \in {"dropship", "warehouse"}, items \in LicenseeItems,
          party \in {CustomerParty, NoCustomerParty} :
          docParams =
             [OrderParams([products |-> <<[id |-> <<"sku">>,
                                          shippingMode |-> mode]>>,
                           shipping_address |-> BillingAddress,
                           billing_address |-> BillingAddress])
                EXCEPT !.lineItems = items, !.customerParty = party]
    /\ docXml = NoDocument

ContractProduct == "p1"

\* Rows of the second import route (importPrice and lastPrice are the
\* offer's price), one of them with or without a project id, its offer with
\* any list of project entries.
InitContract ==
    /\ lineItems = <<Item("p1")>>
    /\ orderNumber = PlainNumber
    /\ InitOrders
    /\ offerPrice = [id \in Products |-> MaxPrice - 1]
    /\ \E list \in ProjectLists :
          offerProjects = [id \in Products |->
                             IF id = ContractProduct THEN list ELSE <<>>]
    /\ \E projectId \in {Null, "prj"} :
          trackedProducts = [id \in Products |->
              ImportedRow(id, "s1", MaxPrice - 1, MaxPrice - 1,
                          IF id = ContractProduct THEN projectId ELSE Null)]
    /\ InitStockJob

\* The forwarding engine alone: every delivery of the event.
NextForward ==
    \E d \in Deliveries : Deliver(d) \/ SendOrder(d) \/ CreateOrder(d)

\* A single delivery of the event.
NextSingle == Deliver(1) \/ SendOrder(1) \/ CreateOrder(1)

\* The supplier's side of the deals.
NextSupplier ==
    \E g \in Distributors : SupplierAdvance(g) \/ DispatchArrives(g)

\* The steps of the order-status job in invocation slot r.
StatusJob(r) ==
    \/ StartRun(r) \/ FinishRun(r) \/ PollNothing(r) \/ PollThrows(r)
    \/ PollStatus(r) \/ Fulfill(r) \/ Update(r)

\* One delivery of the event, the supplier, and runs of the order-status job
\* that follow one another (one invocation slot).
NextStatus ==
    \/ Deliver(1) \/ SendOrder(1) \/ CreateOrder(1)
    \/ NextSupplier
    \/ StatusJob(1)

\* The same with runs of the order-status job that overlap.
NextOverlap ==
    \/ Deliver(1) \/ SendOrder(1) \/ CreateOrder(1)
    \/ NextSupplier
    \/ \E r \in Runs : StatusJob(r)

\* The supplier's prices and the merchant's PATCH requests.
NextCatalog ==
    \E id \in Products :
        PriceChange(id) \/ \E dismiss \in BOOLEAN : Patch(id, Undefined, dismiss)

\* Runs of the stock/price job that follow one another (one invocation
\* slot), with price changes and PATCH requests at any moment.
NextStock == StockJob(1) \/ NextCatalog

\* Runs of the stock/price job that follow one another, price changes, and
\* PATCH requests that set or clear the project id.
NextContract ==
    \/ StockJob(1)
    \/ PriceChange(ContractProduct)
    \/ \E projectId \in {Null, "prj"} : Patch(ContractProduct, projectId, FALSE)

\* the second of two status runs has gone through its orders
StatusParked ==
    statusSteady = "second" /\ runPc[1] = "loop" /\ pendingOrders[1] = <<>>

\* both jobs, each run one after the other, beside the forwarding of one
\* order and the changes of supplier and catalog; the jobs share no row, and
\* the schedule starts the stock job once the status job was run twice
NextTwice ==
    \/ ~StatusParked /\ NextStatus
    \/ StatusParked /\ NextStock

NextImport ==
    \/ \E q \in Imports :
          \/ \E sku \in Skus : PostExisting(q, sku)
          \/ PostDeleteOld(q) \/ PostSearch(q) \/ PostSession(q)
          \/ PostProductCreate(q) \/ PostCreate(q)
    \/ \E id \in 1..MaxImports : Delete(id)

Next ==
    \/ NextForward \/ NextSupplier \/ \E r \in Runs : StatusJob(r)
    \/ NextCatalog \/ \E r \in StockRuns : StockJob(r)
    \/ MapText \/ NextImport \/ BuildOrderXml \/ NextOrders
    \/ NextDocument

Spec == Init /\ [][Next]_vars
SpecForward == Init /\ [][NextForward]_vars
SpecMapping == InitSingle /\ [][MapText]_vars
SpecNumbers == InitNumbers /\ [][NextForward]_vars
SpecSingle == InitItems /\ [][NextSingle]_vars
SpecStatus == Init /\ [][NextStatus]_vars
SpecOverlap == InitSingle /\ [][NextOverlap]_vars
SpecStock == Init /\ [][NextStock]_vars
SpecContract == InitContract /\ [][NextContract]_vars
SpecPrice == InitPrices /\ [][NextStock]_vars
SpecShops == InitShops /\ [][StockJob(1)]_vars
SpecCatalog == InitCatalog /\ [][StockJob(1)]_vars
SpecDelivery == InitDelivery /\ [][NextDocument]_vars
SpecLicensee == InitLicensee /\ [][BuildOrderDocument]_vars
SpecTwice == InitTwice /\ [][NextTwice]_vars
SpecImport == InitImport /\ [][NextImport]_vars
SpecXml == InitFields /\ [][BuildOrderXml]_vars
SpecOrders == InitImport /\ [][NextOrders]_vars

\* The order-status job is invoked again and again, the supplier moves every
\* deal on, and a status request that keeps being made eventually succeeds.
FairStatus ==
    /\ InitSingle /\ [][NextStatus]_vars
    /\ WF_vars(StatusJob(1))
    /\ SF_vars(PollStatus(1))
    /\ \A g \in Distributors : WF_vars(SupplierAdvance(g))

\* The same, and the dispatch notification of a shipped deal arrives.
FairDispatch ==
    /\ FairStatus
    /\ \A g \in Distributors : WF_vars(DispatchArrives(g))

\* ---------------------------------------------------------------------
\* Claims about the forwarding engine
\* ---------------------------------------------------------------------
OrderGroups == {groups[i] : i \in 1..Len(groups)}
Submissions(g) == {d \in Deliveries : g \in submitted[d]}
AllDelivered ==
    /\ \A d \in Deliveries : pc[d] \in {"idle", "done"}
    /\ \E d \in Deliveries : pc[d] = "done"

\* C1: over any number of deliveries of the event, sendOrder is called at
\* most once per (shop, storefront order, distributor).
C1_SendAtMostOnce ==
    \A g \in Distributors : Cardinality(Submissions(g)) <= 1

\* C2: a delivery calls sendOrder for a group only after that same delivery
\* has inserted the Order row of the group.
C2_ClaimBeforeSend ==
    \A d \in Deliveries : submitted[d] \subseteq claimed[d]

\* C3: once the deliveries of the event have completed, every distributor
\* group of the order has its one Order row, and the row is not "pending".
C3_OneRowPerGroup ==
    AllDelivered =>
        \A g \in OrderGroups :
            ledger[g] # NoRow /\ ledger[g].status # "pending"

\* C4: when sendOrder throws for one group, every other group of the order,
\* before or after it, is still submitted by that delivery and its row
\* reaches "sent" or "error".
C4_GroupsIsolated ==
    \A d \in Deliveries :
        pc[d] = "done" /\ threw[d].call = "sendOrder" =>
            \A g \in OrderGroups \ {threw[d].group} :
                g \in submitted[d] /\ ledger[g].status \in {"sent", "error"}

\* C5: once an Order row is in "error", no step changes its status and no
\* step makes another supplier submission for its key.
C5_ErrorIsFinal ==
    [][\A g \in Distributors :
          ledger[g].status = "error" =>
              /\ ledger'[g].status = "error"
              /\ \A d \in Deliveries : g \in submitted'[d] => g \in submitted[d]]_vars

\* C22: a delivery that comes to a group whose Order row already exists
\* makes no supplier submission for the group, leaves the row as it is,
\* raises no error and goes on with the next group of the order.
C22_ExistingRowSkipped ==
    [][\A d \in Deliveries :
          /\ pc[d] \in {"send", "create"} /\ pc'[d] # pc[d]
          /\ ledger[groups[cursor[d]]] # NoRow
          => /\ submitted'[d] = submitted[d]
             /\ ledger' = ledger
             /\ threw'[d] = NoThrow
             /\ IF cursor[d] < Len(groups)
                  THEN pc'[d] = "send" /\ cursor'[d] = cursor[d] + 1
                  ELSE pc'[d] = "done"]_vars

\* C23: every Order row is inserted with status "pending".
C23_InsertedPending ==
    [][\A g \in Distributors :
          ledger[g] = NoRow /\ ledger'[g] # NoRow =>
              ledger'[g].status = "pending"]_vars

\* C24: two distinct storefront orders forwarded to one distributor are
\* sent under own order identifiers that differ.
C24_OwnOrderIdsDiffer ==
    \A a \in forwarded, b \in forwarded :
        a.distributorId = b.distributorId
          /\ <<a.shop, a.orderNumber>> # <<b.shop, b.orderNumber>>
            => a.itscopeOwnOrderId # b.itscopeOwnOrderId

\* ---------------------------------------------------------------------
\* Claims about the order status and the order-status job
\* ---------------------------------------------------------------------
StatusEdges ==
    {<<"pending", "sent">>, <<"pending", "error">>, <<"sent", "confirmed">>,
     <<"sent", "shipped">>, <<"sent", "error">>, <<"confirmed", "shipped">>,
     <<"shipped", "delivered">>}

\* C6: every change of an Order row's status follows an edge of the status
\* state machine.
C6_OnlyStatusEdges ==
    [][\A g \in Distributors :
          ledger[g] # NoRow /\ ledger'[g].status # ledger[g].status =>
              <<ledger[g].status, ledger'[g].status>> \in StatusEdges]_vars

\* The text holds the word at some place, letter case aside.
HoldsWord(text, word) ==
    \E i \in 0..(Len(text) - Len(word)) :
        \A k \in 1..Len(word) :
            \/ text[i + k] = word[k]
            \/ text[i + k] \in DOMAIN UpperOf /\ UpperOf[text[i + k]] = word[k]

\* C17: a text holding delivered or completed maps to "delivered";
\* otherwise one holding shipped or dispatched maps to "shipped"; otherwise
\* one holding confirmed or advised maps to "confirmed"; any other text
\* leaves the order's status as it is.
C17_StatusMapping ==
    LET text == mapInput.text IN
    mapOutput =
        CASE HoldsWord(text, Delivered) \/ HoldsWord(text, Completed)
               -> "delivered"
          [] (HoldsWord(text, Shipped) \/ HoldsWord(text, Dispatched))
               /\ ~(HoldsWord(text, Delivered) \/ HoldsWord(text, Completed))
               -> "shipped"
          [] (HoldsWord(text, Confirmed) \/ HoldsWord(text, Advised))
               /\ ~(HoldsWord(text, Delivered) \/ HoldsWord(text, Completed))
               /\ ~(HoldsWord(text, Shipped) \/ HoldsWord(text, Dispatched))
               -> "confirmed"
          [] OTHER -> mapInput.old

\* A text in lower case that holds two of the words was mapped by the later
\* rule.
C17_Witness ==
    /\ HoldsWord(mapInput.text, Shipped) /\ HoldsWord(mapInput.text, Completed)
    /\ ~Includes(mapInput.text, Shipped) /\ ~Includes(mapInput.text, Completed)
    /\ mapOutput = "delivered"

\* C25: when the supplier returned a status for a polled order, the run
\* leaves the order with the new status and tracking number written to its
\* row, whether createShopifyFulfillment was called or not and whether it
\* failed or not.
C25_AlwaysPersisted ==
    [][\A r \in Runs :
          /\ runPc[r] \in {"fulfill", "update"}
          /\ pendingOrders'[r] = Tail(pendingOrders[r])
          => LET g == Head(pendingOrders[r]).distributorId IN
             /\ ledger'[g].status = newStatus[r]
             /\ ledger'[g].trackingNumber = trackingNumber[r]]_vars

\* C26: the job makes no supplier query for and no update of an Order row
\* that is "delivered" or "error"; such a row keeps all its fields.
C26_TerminalRowsUntouched ==
    [][\A g \in Distributors :
          ledger[g].status \in {"delivered", "error"}
          => /\ ledger'[g] = ledger[g]
             /\ \A r \in Runs :
                   runPc[r] = "loop" /\ pendingOrders[r] # <<>>
                     /\ Head(pendingOrders[r]).distributorId = g
                     => runPc'[r] = "loop"]_vars

\* C27: when the supplier returns no status for a polled order, the run
\* changes no Order row, counts neither an update nor an error and makes no
\* fulfillment; and a status the run does get for an order whose deal id is
\* known is the status of that deal, otherwise that of a deal sent under the
\* order's own order id.
C27_NoStatusNoChange ==
    [][\A r \in Runs :
          /\ PollNothing(r)
                => /\ ledger' = ledger
                   /\ statusUpdated' = statusUpdated /\ statusErrors' = statusErrors
                   /\ fulfillCalls' = fulfillCalls /\ fulfilled' = fulfilled
          /\ runPc[r] = "loop" /\ runPc'[r] \in {"fulfill", "update"}
                => LET order == Head(pendingOrders[r])
                       StatusOf(g) == MapStatus(order.status, SupplierText[supStatus[g]])
                   IN  IF order.itscopeDealId # Null
                         THEN newStatus'[r] = StatusOf(order.distributorId)
                         ELSE \E g \in Distributors :
                                 \* every deal of the order was sent under that id
                                 /\ supStatus[g] # Null
                                 /\ newStatus'[r] = StatusOf(g)]_vars

\* a run went through its one order, the supplier at SHIPPED, and left the
\* row in sent with nothing counted: the supplier had returned no status
C27_Witness ==
    \E g \in Distributors :
        /\ runPc[1] = "loop" /\ polled[1] = 1 /\ pendingOrders[1] = <<>>
        /\ statusUpdated[1] = 0 /\ statusErrors[1] = 0
        /\ ledger[g].status = "sent" /\ supStatus[g] = "SHIPPED"
        /\ fulfillCalls[g] = 0

\* C28: an exception while a run processes an order adds exactly one to the
\* run's error count and changes no row, and the run goes on with the
\* orders that remain; every polled order is counted at most once, so that
\* updated + errors never exceeds the number of polled orders.
C28_OrderFailuresIsolated ==
    [][\A r \in Runs :
          /\ statusErrors'[r] # statusErrors[r] /\ runPc[r] # "idle" /\ runPc'[r] # "idle"
                => /\ statusErrors'[r] = statusErrors[r] + 1
                   /\ ledger' = ledger
                   /\ pendingOrders'[r] = Tail(pendingOrders[r])
                   /\ runPc'[r] = "loop"
          /\ statusUpdated'[r] + statusErrors'[r] + Len(pendingOrders'[r]) <= polled'[r]]_vars

\* of the two orders of a run, one met an exception and the other was updated
C28_Witness ==
    /\ polled[1] = 2 /\ pendingOrders[1] = <<>> /\ runPc[1] = "loop"
    /\ statusErrors[1] = 1 /\ statusUpdated[1] = 1

\* C7: with the job invoked again and again and the supplier reaching
\* DELIVERED, every order that is "sent" is eventually "delivered".
C7_EventuallyDelivered ==
    \A g \in Distributors :
        (ledger[g].status = "sent") ~> (ledger[g].status = "delivered")

\* C8: over runs that follow one another, with the supplier at SHIPPED and a
\* tracking number available, createShopifyFulfillment is called once.
C8_FulfillOnceSequential ==
    \A g \in Distributors :
        supStatus[g] = "SHIPPED" /\ supDispatch[g] => fulfillCalls[g] <= 1

\* C9: when runs overlap, createShopifyFulfillment is still called at most
\* once for an order (a call that threw aside).
C9_FulfillOnceOverlapping ==
    \A g \in Distributors :
        fulfillThrows[g] = 0 => fulfillCalls[g] <= 1


MatchingPrices(product) ==
    {offerProjects[product.id][i].price :
        i \in {j \in 1..Len(offerProjects[product.id]) :
                  offerProjects[product.id][j].manufacturerProjectId
                      = product.projectId}}

\* C11: when the product has a project id and the bound distributor's offer
\* has a project entry with that id, the run takes the entry's price, in
\* every other case the offer's standard price; the price taken is the one
\* written to lastPrice and compared with the reference price.
C11_ContractPrice ==
    [][\A r \in StockRuns :
          LET product == Head(stockQueue[r]) IN
          /\ stockPc[r] = "fetch" /\ stockPc'[r] = "push" =>
                IF product.projectId # Null /\ MatchingPrices(product) # {}
                  THEN newPrice'[r] \in MatchingPrices(product)
                  ELSE newPrice'[r] = offerPrice[product.id]
          /\ stockPc[r] = "update" /\ stockPc'[r] # "update" =>
                /\ trackedProducts'[product.id].lastPrice = newPrice[r]
                /\ trackedProducts'[product.id].priceAlert =
                      (product.priceAlert
                          \/ newPrice[r] > ReferencePrice(product))]_vars

\* A run has recorded the price of a project entry that carries no price
\* (0), which no standard price is.
C11_Witness ==
    \E id \in Products :
        /\ trackedProducts[id].projectId # Null
        /\ trackedProducts[id].lastPrice = 0
        /\ 0 \in MatchingPrices(trackedProducts[id] @@ [id |-> id])

\* C12: the reference price is the import price if set, else the last
\* observed price, else zero; a run that read the product with its flag
\* down raises the flag exactly when the resolved price is strictly greater
\* than the reference, so an equal price leaves the flag down.
C12_StrictlyGreater ==
    [][\A r \in StockRuns :
          stockPc[r] = "update" /\ stockPc'[r] # "update" =>
            LET product == Head(stockQueue[r])
                reference ==
                    CASE product.importPrice # NoPrice -> product.importPrice
                      [] product.importPrice = NoPrice
                           /\ product.lastPrice # NoPrice -> product.lastPrice
                      [] OTHER -> 0
            IN  ~product.priceAlert =>
                  (trackedProducts'[product.id].priceAlert
                      <=> newPrice[r] > reference)]_vars

\* The run has updated the first product with a price equal to its import
\* price, and the flag is down.
C12_Witness ==
    /\ stockPc[1] = "fetch" /\ Len(stockQueue[1]) = 1
    /\ stockUpdated[1] = 1 /\ stockErrors[1] = 0
    /\ trackedProducts["p1"].importPrice # NoPrice
    /\ trackedProducts["p1"].lastPrice = trackedProducts["p1"].importPrice
    /\ ~trackedProducts["p1"].priceAlert

\* ---------------------------------------------------------------------
\* Claims about the submissions
\* ---------------------------------------------------------------------
DigitChars == <<"0", "1", "2", "3", "4", "5", "6", "7", "8", "9">>

RECURSIVE Decimal(_)
Decimal(n) ==
    IF n < Len(DigitChars) THEN <<DigitChars[n + 1]>>
    ELSE Decimal(n \div Len(DigitChars))
            \o <<DigitChars[(n % Len(DigitChars)) + 1]>>

\* "SH" + order_number for the first group, "SH" + order_number + "/" +
\* index for the later ones, cut to 18 characters.
IndexedOwnOrderId(index) ==
    LET suffix == IF index = 0 THEN <<>> ELSE <<"/">> \o Decimal(index)
        id == <<"S", "H">> \o orderNumber \o suffix
    IN  SubSeq(id, 1, IF Len(id) < MaxOwnOrderId THEN Len(id) ELSE MaxOwnOrderId)

\* C14: the group at position i of the order's groups is sent and recorded
\* under "SH" + order_number (i = 0) or "SH" + order_number + "/" + i
\* (i >= 1), cut to 18 characters, whichever delivery records it.
C14_OwnOrderIds ==
    \A i \in 1..Len(groups) :
        ledger[groups[i]] # NoRow =>
            /\ ledger[groups[i]].itscopeOwnOrderId = IndexedOwnOrderId(i - 1)
            /\ Len(ledger[groups[i]].itscopeOwnOrderId) <= MaxOwnOrderId

\* The line items whose product is an active tracked product of the shop
\* bound to distributor g.
LineItemsOf(g) ==
    {i \in 1..Len(lineItems) :
        /\ lineItems[i].product_id \in Products
        /\ trackedProducts[lineItems[i].product_id].active
        /\ trackedProducts[lineItems[i].product_id].shop = OrderShop
        /\ trackedProducts[lineItems[i].product_id].distributorId = g}

\* The entries of a submission that come from line item i.
EntriesOf(xml, i) ==
    {k \in 1..Len(xml) :
        /\ xml[k].supplierPid = lineItems[i].product_id
        /\ xml[k].quantity = lineItems[i].quantity}

\* C15: after a single delivery in which every supplier call returned, a
\* distributor with a matched line item has one submission and one row, the
\* submission holds exactly the line items of its products, and a
\* distributor without one has neither.
C15_SubmissionsByDistributor ==
    pc[1] = "done" /\ threw[1] = NoThrow =>
        \A g \in Distributors :
            IF LineItemsOf(g) = {}
              THEN g \notin submitted[1] /\ ledger[g] = NoRow
              ELSE /\ g \in submitted[1] /\ ledger[g] # NoRow
                   /\ Len(orderXml[g]) = Cardinality(LineItemsOf(g))
                   /\ \A i \in LineItemsOf(g) : EntriesOf(orderXml[g], i) # {}
                   /\ \A k \in 1..Len(orderXml[g]) :
                         \E i \in LineItemsOf(g) : k \in EntriesOf(orderXml[g], i)

\* The same for orders in which no two line items are of one product.
C15_DistinctProducts ==
    (\A i, j \in 1..Len(lineItems) :
        lineItems[i].product_id = lineItems[j].product_id => i = j)
    => C15_SubmissionsByDistributor

C13_AlwaysOk ==
    \A d \in Deliveries :
        pc[d] \in {"done", "ignored", "crashed"} => Response(d) = 200

\* The active products of a shop.
ActiveOf(shop) ==
    {id \in Products : trackedProducts[id].active /\ trackedProducts[id].shop = shop}

\* The products a run still has to process.
Queued(r) == {stockQueue[r][i].id : i \in 1..Len(stockQueue[r])}

\* C29: an exception while a run processes a product adds exactly one to
\* the run's error count and changes no TrackedProduct row, and the products
\* that remain, of that shop and of the others, stay to be processed; no
\* step counts more products, as updated or as error, than it takes from
\* the products to be processed.
C29_ProductFailuresIsolated ==
    [][\A r \in StockRuns :
          /\ stockPc[r] \in {"fetch", "push", "update"}
               /\ stockErrors'[r] # stockErrors[r]
                => /\ stockErrors'[r] = stockErrors[r] + 1
                   /\ stockUpdated'[r] = stockUpdated[r]
                   /\ trackedProducts' = trackedProducts
                   /\ stockQueue'[r] = Tail(stockQueue[r])
          /\ stockPc[r] # "idle" /\ stockPc'[r] # "idle"
                => (stockUpdated'[r] + stockErrors'[r])
                      - (stockUpdated[r] + stockErrors[r])
                   <= Len(stockQueue[r]) - Len(stockQueue'[r])]_vars

\* a run over the products of two shops ended with one product counted as
\* error and the two others as updated
C29_Witness ==
    /\ stockPc[1] = "session" /\ stockQueue[1] = <<>> /\ stockSkipped[1] = {}
    /\ stockErrors[1] = 1 /\ stockUpdated[1] = 2
    /\ \E a \in Products, b \in Products :
          trackedProducts[a].shop # trackedProducts[b].shop

\* C30: for a product the run processes, inventorySetQuantities is
\* requested only after inventoryActivate; and when inventoryActivate
\* fails, inventorySetQuantities is requested all the same and, once it
\* returns, the TrackedProduct row is updated and the product counted as
\* updated.
C30_ActivateThenSet ==
    [][\A r \in StockRuns :
          LET calls == inventoryCalls[r]
              next == inventoryCalls'[r]
          IN  /\ \A i \in 1..Len(next) :
                    next[i].call = "inventorySetQuantities" =>
                        i > 1 /\ next[i - 1].call = "inventoryActivate"
              /\ stockPc[r] = "push" /\ next # <<>> /\ ~next[1].ok
                    => /\ Len(next) = 2
                       /\ next[2].call = "inventorySetQuantities"
                       /\ next[2].ok => stockPc'[r] = "update"
              /\ stockPc[r] = "update"
                    => /\ stockUpdated'[r] = stockUpdated[r] + 1
                       /\ trackedProducts'[Head(stockQueue[r]).id].lastPrice
                             = newPrice[r]]_vars

\* a product was counted as updated, with the price of the offer written to
\* its row, after an inventoryActivate that failed
C30_Witness ==
    /\ inventoryCalls[1] = InventoryCalls(FALSE, TRUE)
    /\ stockUpdated[1] = 1 /\ stockErrors[1] = 0
    /\ \E id \in Products : trackedProducts[id].lastPrice = MaxPrice

C18_ShopSkipped ==
    [][\A r \in StockRuns :
          /\ \A shop \in stockSkipped'[r] \ stockSkipped[r] :
                /\ stockErrors'[r] = stockErrors[r] + Cardinality(ActiveOf(shop))
                /\ stockUpdated'[r] = stockUpdated[r]
                /\ trackedProducts' = trackedProducts
                /\ Queued(r)' = Queued(r) \ ActiveOf(shop)
                /\ stockPc'[r] = "session"
          /\ stockPc[r] \in {"fetch", "push", "update"} =>
                Head(stockQueue[r]).shop \notin stockSkipped[r]
          /\ \A id \in Products :
                trackedProducts'[id] # trackedProducts[id] =>
                    trackedProducts[id].shop \notin stockSkipped[r]]_vars

\* A run skipped shop s1 with its two products and updated the product of
\* the other shop.
C18_Witness ==
    /\ stockSkipped[1] = {"s1"} /\ Cardinality(ActiveOf("s1")) = 2
    /\ stockErrors[1] = 2 /\ stockUpdated[1] = 1
    /\ stockQueue[1] = <<>>
    /\ \E id \in Products :
          trackedProducts[id].shop = "s2" /\ trackedProducts[id].priceAlert

\* C20: there is at most one TrackedProduct row per SKU of the shop; an
\* import that finds the SKU actively tracked is answered 409 and creates
\* neither a row nor a storefront product; and when an import that found
\* the SKU soft-deleted has ended, the old row is gone and a fresh active
\* row of the SKU is there.
C20_OneRowPerSku ==
    [][/\ \A sku \in Skus : Cardinality(RowsOf(sku)') <= 1
       /\ \A q \in Imports :
             /\ importPc[q] = "idle" /\ importPc'[q] # "idle"
                  /\ (\E row \in RowsOf(importSku'[q]) : row.active)
                  => /\ importPc'[q] = "done" /\ answer'[q] = 409
                     /\ trackedRows' = trackedRows
                     /\ storefront' = storefront
             /\ importPc[q] # "done" /\ importPc'[q] = "done"
                  /\ existing'[q] # NoExisting /\ ~existing'[q].active
                  => /\ existing'[q] \notin trackedRows'
                     /\ \E row \in trackedRows' :
                           /\ row.sku = importSku'[q]
                           /\ row.active /\ row.id # existing'[q].id]_vars

\* The entity that stands for a character in XML text.
Entity(ch) ==
    CASE ch = "&" -> Amp
      [] ch = "<" -> Lt
      [] ch = ">" -> Gt
      [] ch = "\"" -> Quot
      [] ch = "'" -> Apos
      [] OTHER -> <<ch>>

RECURSIVE Entities(_)
Entities(str) ==
    IF str = <<>> THEN <<>> ELSE Entity(Head(str)) \o Entities(Tail(str))

\* C21: the text inserted for a free-text field is the field's value with
\* every & < > " ' replaced by its entity and every other character kept;
\* the & of an entity that the replacement produced is not replaced again.
C21_EveryFieldEscaped == xmlOutput # NotBuilt => xmlOutput = Entities(xmlInput)

\* a value holding & and < and an entity written out by the customer
C21_Witness ==
    /\ xmlInput = <<"<", "&", "&", "l", "t", ";">>
    /\ xmlOutput = Lt \o Amp \o Amp \o <<"l", "t", ";">>


C32_Delivery == SelectSeq(docXml.parties, LAMBDA party : party.role = "delivery")

\* C32: the document of a group has exactly one delivery party; when a
\* product of the group is drop-shipped the document carries the
\* dropshipment flag and the party's street, ZIP code (less a country
\* prefix), city and country are those of the order's shipping address;
\* otherwise the document carries no flag and the party's name and
\* address are the merchant's own.
C32_DeliveryParty ==
    docXml # NoDocument =>
        LET dropship == \E i \in 1..Len(docOrder.products) :
                           docOrder.products[i].shippingMode = "dropship"
            to == docOrder.shipping_address
        IN  /\ Len(C32_Delivery) = 1
            /\ docXml.dropshipment = dropship
            /\ dropship /\ to.given
                  => /\ C32_Delivery[1].street
                          = to.address1 \o (IF to.address2 = <<>> THEN <<>>
                                            ELSE <<" ">> \o to.address2)
                     /\ C32_Delivery[1].zip = StripZipPrefix(to.zip)
                     /\ C32_Delivery[1].city = to.city
                     /\ C32_Delivery[1].country = to.country_code
            /\ ~dropship
                  => /\ C32_Delivery[1].name = Env.COMPANY_NAME
                     /\ C32_Delivery[1].street = Env.COMPANY_STREET
                     /\ C32_Delivery[1].zip = StripZipPrefix(Env.COMPANY_ZIP)
                     /\ C32_Delivery[1].city = Env.COMPANY_CITY
                     /\ C32_Delivery[1].country = Env.COMPANY_COUNTRY


\* the customer (licensee) parties of the document built
C33_Customers == SelectSeq(docXml.parties, LAMBDA party : party.role = "customer")

C34_Rank ==
    [pending |-> 1, sent |-> 2, confirmed |-> 3, shipped |-> 4, delivered |-> 5]

\* C34: no step moves the status of an Order row backward in the order
\* pending < sent < confirmed < shipped < delivered, runs of the
\* order-status job that overlap included.
C34_NeverBackward ==
    [][\A g \in Distributors :
          /\ ledger[g] # NoRow /\ ledger'[g] # NoRow
          /\ ledger[g].status \in DOMAIN C34_Rank
          /\ ledger'[g].status \in DOMAIN C34_Rank
          => C34_Rank[ledger'[g].status] >= C34_Rank[ledger[g].status]]_vars


\* C35: with the job invoked again and again, the status requests
\* succeeding and the dispatch notification arriving, an order that was
\* forwarded and whose deal the supplier reports as shipped eventually has
\* its storefront fulfillment with the tracking number.
C35_EventuallyFulfilled ==
    \A g \in Distributors :
        (ledger[g].status \in {"sent", "confirmed", "shipped"}
            /\ supStatus[g] = "SHIPPED")
        ~> fulfilled[g]


\* the price a row's alert is measured against
C36_Reference(row) ==
    IF row.importPrice # NoPrice THEN row.importPrice
    ELSE IF row.lastPrice # NoPrice THEN row.lastPrice ELSE 0

\* C36: a step of the stock/price job sets a price-alert flag that is
\* false (never set, or dismissed by a PATCH, also by one made while the
\* run was under way) only when the price the run resolved for the
\* product is strictly greater than the row's reference price.
C36_DismissalKept ==
    [][\A id \in Products :
          ~trackedProducts[id].priceAlert /\ trackedProducts'[id].priceAlert
              => \E r \in StockRuns :
                    /\ stockPc[r] = "update"
                    /\ Head(stockQueue[r]).id = id
                    /\ newPrice[r] > C36_Reference(trackedProducts[id])]_vars


\* the quantity the order asks of a product: the sum over its line items
C37_Ordered(id) ==
    LET Q[i \in 0..Len(lineItems)] ==
            IF i = 0 THEN 0
            ELSE Q[i - 1] + (IF lineItems[i].product_id = id
                               THEN lineItems[i].quantity ELSE 0)
    IN  Q[Len(lineItems)]

\* C37: every line item of a document submitted for a distributor group
\* carries the quantity the order asks of its product, summed over all
\* line items of the order that reference the product.
C37_QuantitySummed ==
    \A g \in Distributors :
        g \in submitted[1] =>
            \A k \in 1..Len(orderXml[g]) :
                orderXml[g][k].quantity = C37_Ordered(orderXml[g][k].supplierPid)


\* the request lacks a header or its signature is not the HMAC of its raw
\* body under the secret
C38_Unauthenticated(request) ==
    \/ request.topic = Null \/ request.shop = Null \/ request.hmac = NoHmac
    \/ request.hmac # [key |-> ApiSecret, rawBody |-> request.rawBody]

\* C38: the step that takes up such a request answers it with 401 and
\* changes neither the ledger, nor the submissions, nor the supplier's
\* deals, nor the sessions; and nothing is done for the request later.
C38_RejectedUntouched ==
    [][\A d \in Deliveries :
          /\ pc[d] = "idle" /\ pc'[d] # "idle"
                /\ C38_Unauthenticated(received'[d])
                => /\ pc'[d] = "rejected"
                   /\ <<ledger, submitted, claimed, supStatus, sessions>>'
                         = <<ledger, submitted, claimed, supStatus, sessions>>
          /\ pc[d] = "rejected"
                => /\ Response(d) = 401
                   /\ pc'[d] = "rejected"
                   /\ submitted'[d] = {} /\ claimed'[d] = {}]_vars

\* an uninstall event signed with another key was rejected and the shop's
\* sessions are still there, while an order event with the right signature
\* went through
C38_Witness ==
    /\ pc[1] = "rejected"
    /\ received[1] = [topic |-> "app/uninstalled", shop |-> OrderShop,
                      hmac |-> Hmac("another key", "{json}"),
                      rawBody |-> "{json}"]
    /\ OrderShop \in sessions
    /\ pc[2] = "done" /\ claimed[2] # {}

====
